---- MODULE Spec2Model ----
(***************************************************************************)
(* Call-session state machine and server-side billing timers of the        *)
(* TingaTalk backend (src/server.js, with the ScalabilityManager of        *)
(* src/unnamed/part_005 as the balance ledger and the Redis call lock).    *)
(*                                                                         *)
(* The in-process maps of server.js are the state: connectedUsers,         *)
(* userStatus, activeCalls and callTimers.  Every socket handler and HTTP  *)
(* endpoint is one action; a handler that suspends at an await is split at *)
(* the await, its locals kept in an in-flight record, so that other        *)
(* handlers interleave exactly where the event loop lets them.             *)
(*                                                                         *)
(* Coins are counted in fifths of a coin (COIN_RATES.audio = 0.2 = 1/5),    *)
(* so that serverDuration * coinRate stays an integer; Math.ceil is        *)
(* computed on that representation.                                        *)
(***************************************************************************)
EXTENDS Integers, Sequences, FiniteSets, TLC

(***************************************************************************)
(* Bounds of the model.                                                    *)
(***************************************************************************)
MaxCalls == 2          \* sessions created by initiate_call in one run
MaxDuration == 6       \* largest durationSeconds a timer is ticked to
MaxInflight == 2       \* handlers of one kind suspended at an await
MaxParticipants == 3   \* length of call.participants
MaxDeductCalls == 2    \* deductUserCoins invocations recorded per callId
MaxTimers == 2         \* callTimers entries created in one run
MaxGraceTimers == 2    \* disconnect timeouts of one user that are armed or running

Users == {"u1", "u2", "u3"}
CallIds == {"c1", "c2"}
CallTypes == {"audio", "video"}
SocketsPerUser == 2
Sockets == Users \X (1..SocketsPerUser)

Null == "null"

(***************************************************************************)
(* Program constants.                                                      *)
(***************************************************************************)
\* COIN_RATES, in fifths of a coin per second.
COIN_RATE_AUDIO == 1
COIN_RATE_VIDEO == 5
FifthsPerCoin == 5
MIN_CALL_DURATION_SECONDS == 120

\* Firestore user documents: the opening balance (coins) of every user and
\* the users that have a push token.
InitialBalance == [u \in Users |-> IF u = "u1" THEN 200 ELSE IF u = "u2" THEN 30 ELSE 3]
FcmUsers == {"u3"}

\* userType of the join message: u3 joins as 'female', the others as 'male'.
UserType(u) == IF u = "u3" THEN "female" ELSE "male"

VARIABLES
    liveSockets,      \* io.sockets.sockets: the connected sockets
    connectedUsers,   \* userId -> { socketId, isOnline }
    userStatus,       \* userId -> { status, currentCallId }
    activeCalls,      \* callId -> call object
    callDocs,         \* Firestore calls/<callId>: the status field
    callTimers,       \* callId -> { interval, durationSeconds, coinRate, ... }
    liveIntervals,    \* running setInterval handles: <<callId, timer object>>
    ringTimeouts,     \* armed setTimeout callbacks of initiate_call
    balance,          \* Firestore coinBalance of every user
    fsAvailable,      \* Firestore isAvailable (the saved opt-in toggle)
    deductCalls,      \* callId -> number of deductUserCoins invocations
    charged,          \* callId -> coins taken from a balance for the callId
    nextObj,          \* number of call objects created so far
    initiating,       \* initiate_call handlers suspended at an await
    completing,       \* /api/calls/complete handlers suspended at an await
    starting,         \* /api/calls/start handlers suspended at an await
    sweeping,         \* the heartbeat sweep, suspended at an await or idle
    callLocks,        \* Redis call_lock:<recipientId>: the callerId holding it
    releasing,        \* releaseCallLock calls suspended between GET and DEL
    lockGrants,       \* recipientId -> callers told true since the key was last removed
    timersCreated,    \* number of callTimers.set calls so far
    closing,          \* sockets closed by the server, 'disconnect' not yet handled
    joining,          \* join handlers suspended loading the saved preference
    disconnecting,    \* disconnect handlers suspended at their Firestore update
    disconnectTimeouts, \* userId -> the timeout the map holds for the user (0: none)
    graceTimers,      \* armed setTimeout callbacks of startDisconnectTimeout
    expiring,         \* disconnect timeout callbacks suspended at their Firestore update
    fsOnline,         \* Firestore isOnline of every user
    emitted,          \* events and responses sent by the last step
    observed          \* the event names that are recorded in emitted

reconnectVars == <<closing, joining, disconnecting, disconnectTimeouts, graceTimers,
                   expiring, fsOnline>>
presenceVars == <<liveSockets, connectedUsers, reconnectVars>>
callVars == <<userStatus, activeCalls, callDocs, ringTimeouts, nextObj>>
timerVars == <<callTimers, liveIntervals, timersCreated>>
ledgerVars == <<balance, fsAvailable, deductCalls, charged>>
lockVars == <<callLocks, releasing, lockGrants>>
inflightVars == <<initiating, completing, starting, sweeping, lockVars>>
vars == <<liveSockets, connectedUsers, userStatus, activeCalls, callDocs, callTimers,
          liveIntervals, ringTimeouts, balance, fsAvailable, deductCalls, charged, nextObj,
          initiating, completing, starting, sweeping, callLocks, releasing, lockGrants,
          timersCreated, closing, joining, disconnecting, disconnectTimeouts, graceTimers,
          expiring, fsOnline, emitted, observed>>

(***************************************************************************)
(* Absent map entries.                                                     *)
(***************************************************************************)
NoConnection == [socketId |-> <<Null, 0>>, isOnline |-> FALSE, present |-> FALSE]
NoStatus == [status |-> "undefined", currentCallId |-> Null]
NoCall == [callerId |-> Null, recipientId |-> Null, callType |-> Null,
           status |-> "undefined", participants |-> <<>>, obj |-> 0]
NoTimer == [present |-> FALSE, obj |-> 0, durationSeconds |-> 0,
            coinRate |-> 0, callerId |-> Null, recipientId |-> Null,
            callType |-> Null, stale |-> FALSE]

HasCall(c) == activeCalls[c].status # "undefined"
HasTimer(c) == callTimers[c].present

(***************************************************************************)
(* Pure helpers.                                                           *)
(***************************************************************************)
\* coinRate = callType === 'video' ? COIN_RATES.video : COIN_RATES.audio
CoinRate(callType) == IF callType = "video" THEN COIN_RATE_VIDEO ELSE COIN_RATE_AUDIO

\* Math.ceil of a non-negative amount given in fifths of a coin, in coins.
CeilCoins(fifths) == (fifths + FifthsPerCoin - 1) \div FifthsPerCoin

\* Math.ceil(durationSeconds * coinRate), in coins.
CoinsToDeduct(durationSeconds, coinRate) == CeilCoins(durationSeconds * coinRate)

\* serverDuration * coinRate, kept in fifths of a coin (no rounding).
RawCoinsFifths(durationSeconds, coinRate) == durationSeconds * coinRate

\* MIN_BALANCE_VIDEO / MIN_BALANCE_AUDIO, in coins.
RequiredBalance(callType) ==
    (CoinRate(callType) * MIN_CALL_DURATION_SECONDS) \div FifthsPerCoin

AvailableStatus == [status |-> "available", currentCallId |-> Null]

Http == <<"http", 0>>

\* An event sent to a socket, or the JSON body of an HTTP response.
Msg(ev, c, to) ==
    [ev |-> ev, callId |-> c, to |-> to, durationSeconds |-> 0, coinRate |-> 0,
     coinsFifths |-> 0]

\* The record of a stopped timer: the duration read, the rate and the amount
\* computed from them (in fifths of a coin), as logged, charged or returned.
StopMsg(path, c, d, rate, fifths) ==
    [ev |-> path, callId |-> c, to |-> Http, durationSeconds |-> d, coinRate |-> rate,
     coinsFifths |-> fifths]

\* io.to(socketId).emit(...) for the connection entry of a user, if any.
EmitToUser(conn, u, ev, c) ==
    IF conn[u].present THEN {Msg(ev, c, conn[u].socketId)} ELSE {}

\* The names of the socket events and HTTP responses of the model.
Events ==
    {"joined", "availability_updated", "incoming_call", "call_initiated", "call_failed",
     "call_timeout", "call_accepted", "call_declined", "call_ended", "call_cancelled",
     "participant_disconnected", "error", "heartbeat", "health_pong", "tracking_started",
     "call_started", "insufficient_balance", "client_fallback", "already_completed",
     "completed", "calls_complete", "complete_call", "disconnect", "sweep",
     "forced_disconnect", "socket_disconnected"}

\* The outputs of a step: those of msgs whose event name is recorded.
Emit(msgs) ==
    /\ emitted' = {m \in msgs : m.ev \in observed}
    /\ observed' = observed

\* The state after construction, recording the event names in events.
InitObserving(events) ==
    /\ liveSockets = {}
    /\ connectedUsers = [u \in Users |-> NoConnection]
    /\ userStatus = [u \in Users |-> NoStatus]
    /\ activeCalls = [c \in CallIds |-> NoCall]
    /\ callDocs = [c \in CallIds |-> "none"]
    /\ callTimers = [c \in CallIds |-> NoTimer]
    /\ liveIntervals = {}
    /\ ringTimeouts = {}
    /\ balance = InitialBalance
    /\ fsAvailable = [u \in Users |-> TRUE]
    /\ deductCalls = [c \in CallIds |-> 0]
    /\ charged = [c \in CallIds |-> 0]
    /\ nextObj = 0
    /\ initiating = {}
    /\ completing = {}
    /\ starting = {}
    /\ sweeping = <<>>
    /\ callLocks = [u \in Users |-> Null]
    /\ releasing = {}
    /\ lockGrants = [u \in Users |-> {}]
    /\ timersCreated = 0
    /\ closing = {}
    /\ joining = {}
    /\ disconnecting = {}
    /\ disconnectTimeouts = [u \in Users |-> 0]
    /\ graceTimers = {}
    /\ expiring = {}
    /\ fsOnline = [u \in Users |-> FALSE]
    /\ emitted = {}
    /\ observed = events

Init == InitObserving(Events)

(***************************************************************************)
(* The disconnect timeouts (startDisconnectTimeout, cancelDisconnectTimeout *)
(* and the map disconnectTimeouts).  A timeout is told from the others of   *)
(* its user by a number; s is the socket whose disconnect armed it.  The    *)
(* field rejoined records history only: the user has joined again since    *)
(* the timeout was armed.  No action reads it.                             *)
(***************************************************************************)
GraceTimer(id, u, s) ==
    [id |-> id, userId |-> u, userType |-> UserType(u), s |-> s, rejoined |-> FALSE]

MarkRejoined(timers, u) ==
    {IF t.userId = u THEN [t EXCEPT !.rejoined = TRUE] ELSE t : t \in timers}

\* clearTimeout(existingTimeout.timeoutId): the armed callbacks without the
\* one the map holds for user u.
ClearTimeoutOf(timers, map, u) == {t \in timers : ~(t.userId = u /\ t.id = map[u])}

\* cancelDisconnectTimeout(userId), as join calls it
CancelDisconnectTimeout(u) ==
    /\ graceTimers' = MarkRejoined(ClearTimeoutOf(graceTimers, disconnectTimeouts, u), u)
    /\ disconnectTimeouts' = [disconnectTimeouts EXCEPT ![u] = 0]

\* The numbers of the timeouts of user u that are armed in timers or running.
GraceIdsOf(timers, u) ==
    {t.id : t \in {x \in timers : x.userId = u}} \cup
    {e.id : e \in {x \in expiring : x.userId = u}}

\* startDisconnectTimeout(userId, userType), called for the disconnect of
\* socket s: the timeout the map holds is cleared, a new one is armed and
\* stored in the map.
StartDisconnectTimeout(u, s) ==
    LET kept == ClearTimeoutOf(graceTimers, disconnectTimeouts, u)
        free == (1..MaxGraceTimers) \ GraceIdsOf(kept, u)
        id == CHOOSE n \in free : \A k \in free : n <= k
    IN  /\ free # {}
        /\ graceTimers' = kept \cup {GraceTimer(id, u, s)}
        /\ disconnectTimeouts' = [disconnectTimeouts EXCEPT ![u] = id]

(***************************************************************************)
(* socket.on('join'): the user of the socket registers on it.  A socket    *)
(* that is not connected yet connects first (io.on('connection')).  The    *)
(* handler suspends while it loads the saved preference, which it does     *)
(* when the user has no status or is unavailable or disconnected; the      *)
(* update of isOnline is issued before its second await, after which only  *)
(* 'joined' is sent.  JoinStart and JoinLoaded are the handler before and  *)
(* after the load; Join is the whole handler when no other handler runs    *)
(* while it loads.                                                         *)
(***************************************************************************)
\* io.sockets.sockets with socket s connected and nothing taken away.
AddSocket(live, old, s) == live \cup {s}

\* oldSocket.leave(room); oldSocket.disconnect(true): the previous socket of
\* the user is closed, socket s is the one that stays.
ReplaceSocket(live, old, s) == (live \ {old}) \cup {s}

JoinRec(s, pref) == [s |-> s, userId |-> s[1], pref |-> pref]

\* existingUser && existingUser.socketId !== socket.id
Replaced(s) == connectedUsers[s[1]].present /\ connectedUsers[s[1]].socketId # s

\* !currentStatus || status === 'unavailable' || status === 'disconnected'
LoadsPreference(u) == userStatus[u].status \in {"undefined", "unavailable", "disconnected"}

\* setUserStatusSync(userId, {status: savedPreference ? ..., currentCallId: null})
StatusFromPreference(savedPreference) ==
    [status |-> IF savedPreference THEN "available" ELSE "unavailable",
     currentCallId |-> Null]

ForcedDisconnectMsgs(s) ==
    IF Replaced(s) THEN {Msg("forced_disconnect", Null, connectedUsers[s[1]].socketId)}
    ELSE {}

\* The part of join before the status is looked at: the disconnect timeout
\* is cancelled, the old socket is closed (its 'disconnect' handler runs
\* later and finds no user registered on it), the connection is registered.
JoinRegisters(s) ==
    LET u == s[1]
        live == IF Replaced(s) THEN ReplaceSocket(liveSockets, connectedUsers[u].socketId, s)
                ELSE liveSockets \cup {s}
    IN  /\ s \notin closing
        /\ CancelDisconnectTimeout(u)
        /\ liveSockets' = live
        /\ closing' = closing \cup (liveSockets \ live)
        /\ connectedUsers' = [connectedUsers EXCEPT
               ![u] = [socketId |-> s, isOnline |-> TRUE, present |-> TRUE]]
        /\ UNCHANGED <<activeCalls, callDocs, ringTimeouts, nextObj, timerVars,
                       ledgerVars, initiating, completing, starting, sweeping, lockVars,
                       disconnecting, expiring>>

JoinStart(s) ==
    LET u == s[1]
    IN  /\ JoinRegisters(s)
        /\ IF LoadsPreference(u)
           THEN /\ joining' = joining \cup {JoinRec(s, fsAvailable[u])}
                /\ UNCHANGED fsOnline
                /\ Emit(ForcedDisconnectMsgs(s))
           ELSE /\ fsOnline' = [fsOnline EXCEPT ![u] = TRUE]
                /\ Emit({Msg("joined", Null, s)} \cup ForcedDisconnectMsgs(s))
                /\ UNCHANGED joining
        /\ UNCHANGED userStatus

Join(s) ==
    LET u == s[1]
        \* savedPreference = userData.isAvailable !== false
        savedPreference == fsAvailable[u]
    IN  /\ JoinRegisters(s)
        /\ userStatus' = IF LoadsPreference(u)
                         THEN [userStatus EXCEPT ![u] = StatusFromPreference(savedPreference)]
                         ELSE userStatus
        /\ fsOnline' = [fsOnline EXCEPT ![u] = TRUE]
        /\ Emit({Msg("joined", Null, s)} \cup ForcedDisconnectMsgs(s))
        /\ UNCHANGED joining

\* join after the saved preference is loaded: the status is written whatever
\* it has become meanwhile.  The document was read at some moment of the
\* await: savedPreference = userData.isAvailable !== false.
JoinLoaded(j) ==
    /\ j \in joining
    /\ joining' = joining \ {j}
    /\ \E savedPreference \in {j.pref, fsAvailable[j.userId]} :
          userStatus' = [userStatus EXCEPT ![j.userId] = StatusFromPreference(savedPreference)]
    /\ fsOnline' = [fsOnline EXCEPT ![j.userId] = TRUE]
    /\ Emit({Msg("joined", Null, j.s)})
    /\ UNCHANGED <<liveSockets, connectedUsers, closing, disconnecting, disconnectTimeouts,
                   graceTimers, expiring, activeCalls, callDocs, ringTimeouts, nextObj,
                   timerVars, ledgerVars, initiating, completing, starting, sweeping,
                   lockVars>>

(***************************************************************************)
(* ScalabilityManager.deductUserCoins: the Firestore transaction.  It      *)
(* takes the amount from the balance unless the balance is smaller.        *)
(***************************************************************************)
DeductSucceeds(bal, u, amount) == bal[u] >= amount

BalanceAfterDeduct(bal, u, amount) ==
    IF DeductSucceeds(bal, u, amount) THEN [bal EXCEPT ![u] = @ - amount] ELSE bal

Min(a, b) == IF a < b THEN a ELSE b

\* The ledger after deductUserCoins(u, amount, c) has been invoked and has run.
DeductUserCoins(u, amount, c) ==
    /\ balance' = BalanceAfterDeduct(balance, u, amount)
    /\ deductCalls' = [deductCalls EXCEPT ![c] = Min(@ + 1, MaxDeductCalls)]
    /\ charged' = [charged EXCEPT
           ![c] = IF DeductSucceeds(balance, u, amount) THEN @ + amount ELSE @]
    /\ UNCHANGED fsAvailable

\* clearInterval(timer.interval) for the timer object obj of callId c.
ClearInterval(live, c, obj) == live \ {<<c, obj>>}

\* callTimers with the entry of callId c left in place.
KeepTimer(timers, c) == timers

\* callTimers.delete(callId)
DeleteTimer(timers, c) == [timers EXCEPT ![c] = NoTimer]

\* The entry callTimers.set(callId, {...}) stores, with its new interval.
NewTimer(obj, coinRate, callerId, recipientId, callType) ==
    [present |-> TRUE, obj |-> obj, durationSeconds |-> 0, coinRate |-> coinRate,
     callerId |-> callerId, recipientId |-> recipientId, callType |-> callType,
     stale |-> FALSE]

\* Users in seq, in order, each set to 'available' with currentCallId null.
RECURSIVE ResetAll(_, _)
ResetAll(status, seq) ==
    IF seq = <<>> THEN status
    ELSE ResetAll([status EXCEPT ![Head(seq)] = AvailableStatus], Tail(seq))

SeqToSet(seq) == {seq[i] : i \in DOMAIN seq}

\* saveCallToFirestore: callRef.set(..., { merge: true }) creates the document.
SaveCallToFirestore(docs, c, status) == [docs EXCEPT ![c] = status]

\* updateCallInFirestore: callRef.update(...) fails on a missing document.
UpdateCallInFirestore(docs, c, status) ==
    IF docs[c] = "none" THEN docs ELSE [docs EXCEPT ![c] = status]

(***************************************************************************)
(* socket.on('disconnect'): the socket closes.  Only the user registered   *)
(* on this very socket is touched.  For a user who joined as 'female' the  *)
(* handler issues the update of isOnline and suspends before it starts the *)
(* disconnect timeout; for the others it starts the timeout at once.       *)
(***************************************************************************)
\* A user has an entry in connectedUsers, whatever socket it names.
AnySocketOf(conn, s) == conn[s[1]].present

\* user.socketId === socket.id, for the entry of the user of socket s
RegisteredOn(conn, s) == conn[s[1]].present /\ conn[s[1]].socketId = s

\* logger.info(`User disconnected: ${socket.id}`)
SocketLog(s) == Msg("socket_disconnected", Null, s)

DisconnectRec(u, s) == [userId |-> u, s |-> s]

Disconnect(s) ==
    LET u == s[1]
        registered == RegisteredOn(connectedUsers, s)
        conn == [connectedUsers EXCEPT ![u].isOnline = FALSE]
        callId == userStatus[u].currentCallId
        inCall == callId # Null /\ HasCall(callId)
        call == activeCalls[callId]
        others == {p \in SeqToSet(call.participants) : p # u}
        serverTimer == callTimers[callId]
        durationSeconds == serverTimer.durationSeconds
        \* serverTimer.coinRate || COIN_RATES.audio
        coinRate == IF serverTimer.coinRate = 0 THEN COIN_RATE_AUDIO ELSE serverTimer.coinRate
        coinsDeducted == CoinsToDeduct(durationSeconds, coinRate)
        reset == [x \in Users |-> IF x \in others THEN AvailableStatus ELSE userStatus[x]]
        gone == [status |-> "disconnected", currentCallId |-> Null]
    IN  /\ s \in liveSockets \cup closing
        /\ liveSockets' = liveSockets \ {s}
        /\ closing' = closing \ {s}
        /\ IF ~registered
           THEN /\ Emit({SocketLog(s)})
                /\ UNCHANGED <<connectedUsers, callVars, timerVars, ledgerVars,
                               disconnecting, disconnectTimeouts, graceTimers, fsOnline>>
           ELSE /\ connectedUsers' = conn
                /\ IF UserType(u) = "female"
                   THEN /\ fsOnline' = [fsOnline EXCEPT ![u] = FALSE]
                        /\ disconnecting' = disconnecting \cup {DisconnectRec(u, s)}
                        /\ UNCHANGED <<disconnectTimeouts, graceTimers>>
                   ELSE /\ StartDisconnectTimeout(u, s)
                        /\ UNCHANGED <<fsOnline, disconnecting>>
                /\ IF ~inCall
                   THEN /\ userStatus' = [userStatus EXCEPT ![u] = gone]
                        /\ Emit({SocketLog(s)})
                        /\ UNCHANGED <<activeCalls, callDocs, timerVars, ledgerVars>>
                   ELSE /\ userStatus' = [reset EXCEPT ![u] = gone]
                        /\ activeCalls' = [activeCalls EXCEPT ![callId] = NoCall]
                        /\ callDocs' = UpdateCallInFirestore(callDocs, callId, "disconnected")
                        /\ IF serverTimer.present
                           THEN /\ liveIntervals' =
                                       ClearInterval(liveIntervals, callId, serverTimer.obj)
                                /\ callTimers' = DeleteTimer(callTimers, callId)
                                /\ UNCHANGED timersCreated
                                /\ IF call.callerId # Null /\ coinsDeducted > 0
                                   THEN DeductUserCoins(call.callerId, coinsDeducted, callId)
                                   ELSE UNCHANGED ledgerVars
                                /\ Emit(
                                     {Msg("participant_disconnected", callId, conn[p].socketId) :
                                        p \in {q \in others : conn[q].present /\ conn[q].isOnline}}
                                     \cup {StopMsg("disconnect", callId, durationSeconds, coinRate,
                                                   coinsDeducted * FifthsPerCoin),
                                           SocketLog(s)})
                           ELSE /\ UNCHANGED <<timerVars, ledgerVars>>
                                /\ Emit(
                                     {Msg("participant_disconnected", callId, conn[p].socketId) :
                                        p \in {q \in others : conn[q].present /\ conn[q].isOnline}}
                                     \cup {SocketLog(s)})
                /\ UNCHANGED <<ringTimeouts, nextObj>>
        /\ UNCHANGED <<initiating, completing, starting, sweeping, lockVars, joining,
                       expiring>>

\* The disconnect handler of a 'female' user after its await:
\* startDisconnectTimeout(userId, userType).
DisconnectArms(d) ==
    /\ d \in disconnecting
    /\ disconnecting' = disconnecting \ {d}
    /\ StartDisconnectTimeout(d.userId, d.s)
    /\ Emit({})
    /\ UNCHANGED <<liveSockets, connectedUsers, closing, joining, expiring, fsOnline,
                   callVars, timerVars, ledgerVars, initiating, completing, starting,
                   sweeping, lockVars>>

(***************************************************************************)
(* The callback of a disconnect timeout (DISCONNECT_TIMEOUT_MS after it    *)
(* was armed).  A user who is online again is left alone.  Otherwise the   *)
(* Firestore document is updated: isOnline false and, for a user who       *)
(* joined as 'female', isAvailable false.  After the await on the update   *)
(* the entry of the user is deleted from disconnectTimeouts, whichever     *)
(* timeout it holds by then.                                               *)
(***************************************************************************)
ExpireRec(t) == [id |-> t.id, userId |-> t.userId]

DisconnectTimeoutFires(t) ==
    LET u == t.userId
        userConnection == connectedUsers[u]
    IN  /\ t \in graceTimers
        /\ graceTimers' = graceTimers \ {t}
        /\ IF userConnection.present /\ userConnection.isOnline
           THEN /\ disconnectTimeouts' = [disconnectTimeouts EXCEPT ![u] = 0]
                /\ UNCHANGED <<fsOnline, fsAvailable, expiring>>
           ELSE /\ fsOnline' = [fsOnline EXCEPT ![u] = FALSE]
                /\ fsAvailable' = IF t.userType = "female"
                                  THEN [fsAvailable EXCEPT ![u] = FALSE]
                                  ELSE fsAvailable
                /\ expiring' = expiring \cup {ExpireRec(t)}
                /\ UNCHANGED disconnectTimeouts
        /\ Emit({})
        /\ UNCHANGED <<liveSockets, connectedUsers, closing, joining, disconnecting,
                       callVars, timerVars, balance, deductCalls, charged, initiating,
                       completing, starting, sweeping, lockVars>>

DisconnectTimeoutDone(e) ==
    /\ e \in expiring
    /\ expiring' = expiring \ {e}
    /\ disconnectTimeouts' = [disconnectTimeouts EXCEPT ![e.userId] = 0]
    /\ Emit({})
    /\ UNCHANGED <<liveSockets, connectedUsers, closing, joining, disconnecting,
                   graceTimers, fsOnline, callVars, timerVars, ledgerVars, initiating,
                   completing, starting, sweeping, lockVars>>

(***************************************************************************)
(* POST /api/update_availability, up to its first await: the status write  *)
(* and the saved preference.                                               *)
(***************************************************************************)
UpdateAvailability(u, isAvailable) ==
    LET currentStatus == userStatus[u]
        newStatus == IF isAvailable THEN "available" ELSE "unavailable"
    IN  /\ ~(currentStatus.status = "busy" /\ ~isAvailable)
        /\ userStatus' = [userStatus EXCEPT
               ![u] = [status |-> newStatus, currentCallId |-> currentStatus.currentCallId]]
        /\ fsAvailable' = [fsAvailable EXCEPT ![u] = isAvailable]
        /\ Emit({Msg("availability_updated", Null, Http)})
        /\ UNCHANGED <<presenceVars, activeCalls, callDocs, ringTimeouts, nextObj,
                       timerVars, balance, deductCalls, charged, inflightVars>>

(***************************************************************************)
(* socket.on('initiate_call').  The handler suspends while it fetches the  *)
(* caller's name or the recipient's Firestore document (await1), while the *)
(* backup push is sent on the live-socket path (awaitBackup) and while the *)
(* push is sent on the push-only path (awaitFcm).                          *)
(***************************************************************************)
\* recipientConnection && recipientConnection.isOnline && socket && socket.connected
HasConnection(u) ==
    /\ connectedUsers[u].present
    /\ connectedUsers[u].isOnline
    /\ connectedUsers[u].socketId \in liveSockets

NewCall(callerId, recipientId, callType, obj) ==
    [callerId |-> callerId, recipientId |-> recipientId, callType |-> callType,
     status |-> "initiated", participants |-> <<callerId>>, obj |-> obj]

InitiateRec(pc, s, recipientId, callType, callId, actualStatus, obj, recipientSocketId) ==
    [pc |-> pc, s |-> s, callerId |-> s[1], recipientId |-> recipientId,
     callType |-> callType, callId |-> callId, actualStatus |-> actualStatus,
     obj |-> obj, recipientSocketId |-> recipientSocketId]

\* Lines 2153-2383 up to the next await: the availability verdict, the new
\* call object, the recipient's ringing status and the incoming_call event.
\* `rest` is the set of the other suspended initiate_call handlers.
InitiateCreate(rest, s, recipientId, callType, callId, actualStatus, status0) ==
    LET callerId == s[1]
        obj == nextObj + 1
        call == NewCall(callerId, recipientId, callType, obj)
        recipient == connectedUsers[recipientId]
    IN  IF actualStatus \notin {"available", "fcm_reachable"}
        THEN /\ Emit({Msg("call_failed", callId, s)})
             /\ userStatus' = status0
             /\ initiating' = rest
             /\ UNCHANGED <<activeCalls, callDocs, nextObj>>
        ELSE /\ nextObj' = obj
             \* setActiveCallSync: the call is saved with status 'initiated'
             /\ callDocs' = SaveCallToFirestore(callDocs, callId, "initiated")
             /\ IF recipient.present /\ recipient.isOnline
                THEN /\ activeCalls' = [activeCalls EXCEPT ![callId] = call]
                     /\ userStatus' = [status0 EXCEPT ![recipientId] =
                            [status |-> "ringing", currentCallId |-> callId]]
                     /\ Emit({Msg("incoming_call", callId, recipient.socketId)})
                     /\ initiating' = rest \cup
                            {InitiateRec("awaitBackup", s, recipientId, callType, callId,
                                         actualStatus, obj, recipient.socketId)}
                ELSE IF actualStatus = "fcm_reachable"
                THEN /\ activeCalls' = [activeCalls EXCEPT ![callId] = call]
                     /\ userStatus' = status0
                     /\ Emit({})
                     /\ initiating' = rest \cup
                            {InitiateRec("awaitFcm", s, recipientId, callType, callId,
                                         actualStatus, obj, <<Null, 0>>)}
                ELSE /\ activeCalls' = [activeCalls EXCEPT
                            ![callId] = [call EXCEPT !.status = "failed"]]
                     /\ userStatus' = status0
                     /\ Emit({Msg("call_failed", callId, s)})
                     /\ initiating' = rest

\* recipientStatus.status === 'busy'
IsBusy(status) == status = "busy"

\* recipientStatus.status === 'busy' || recipientStatus.status === 'ringing'
IsBusyOrRinging(status) == status \in {"busy", "ringing"}

\* Lines 2043-2123: the busy/ringing check on the recipient's status.  With a
\* caller name in the message and a live recipient there is no await before
\* the call object is created.
InitiateCall(s, recipientId, callType, callId, named) ==
    LET recipientStatus == userStatus[recipientId]
        hasConnection == HasConnection(recipientId)
        actualStatus == IF hasConnection
                        THEN (IF recipientStatus.status = "undefined" THEN "available"
                              ELSE recipientStatus.status)
                        ELSE "unavailable"
        \* "Fix missing status"
        status0 == IF hasConnection /\ recipientStatus.status = "undefined"
                   THEN [userStatus EXCEPT ![recipientId] = AvailableStatus]
                   ELSE userStatus
        pending == Cardinality({i \in initiating : i.pc = "await1"})
    IN  /\ s \in liveSockets
        /\ recipientId # s[1]
        /\ Cardinality(initiating) < MaxInflight
        /\ nextObj + pending < MaxCalls
        /\ IF IsBusyOrRinging(recipientStatus.status)
           THEN /\ Emit({Msg("call_failed", callId, s)})
                /\ userStatus' = status0
                /\ UNCHANGED <<activeCalls, callDocs, nextObj, initiating>>
           ELSE IF named /\ hasConnection
           THEN InitiateCreate(initiating, s, recipientId, callType, callId,
                               actualStatus, status0)
           ELSE /\ initiating' = initiating \cup
                       {InitiateRec("await1", s, recipientId, callType, callId,
                                    IF hasConnection THEN actualStatus ELSE "no_connection",
                                    0, <<Null, 0>>)}
                /\ userStatus' = status0
                /\ Emit({})
                /\ UNCHANGED <<activeCalls, callDocs, nextObj>>
        /\ UNCHANGED <<presenceVars, ringTimeouts, timerVars, ledgerVars,
                       completing, starting, sweeping, lockVars>>

\* Lines 2126-2148 after the awaits: without a connection the recipient's
\* Firestore document decides between 'fcm_reachable' and 'unavailable'.
InitiateResume(i) ==
    LET hasToggleOn == fsAvailable[i.recipientId]
        hasFcmToken == i.recipientId \in FcmUsers
        actualStatus == IF i.actualStatus # "no_connection" THEN i.actualStatus
                        ELSE IF hasToggleOn /\ hasFcmToken THEN "fcm_reachable"
                        ELSE "unavailable"
    IN  /\ i \in initiating
        /\ i.pc = "await1"
        /\ InitiateCreate(initiating \ {i}, i.s, i.recipientId, i.callType, i.callId,
                          actualStatus, userStatus)
        /\ UNCHANGED <<presenceVars, ringTimeouts, timerVars, ledgerVars,
                       completing, starting, sweeping, lockVars>>

\* The timeout armed by initiate_call: what its callback closes over.
RingTimeout(kind, i) ==
    [kind |-> kind, callId |-> i.callId, recipientId |-> i.recipientId,
     recipientSocketId |-> i.recipientSocketId, s |-> i.s]

\* call.<field> = ... on the call object the handler created: visible in
\* activeCalls only while that object is still the entry of its callId.
SetStatusOfObject(calls, callId, obj, status) ==
    IF calls[callId].obj = obj /\ calls[callId].status # "undefined"
    THEN [calls EXCEPT ![callId].status = status]
    ELSE calls

\* Lines 2255-2297: after the backup push, the call is marked ringing, the
\* caller hears call_initiated and the 30 s timeout is armed.
InitiateRinging(i) ==
    /\ i \in initiating
    /\ i.pc = "awaitBackup"
    /\ activeCalls' = SetStatusOfObject(activeCalls, i.callId, i.obj, "ringing")
    /\ Emit({Msg("call_initiated", i.callId, i.s)})
    /\ ringTimeouts' = ringTimeouts \cup {RingTimeout("ws", i)}
    /\ initiating' = initiating \ {i}
    /\ UNCHANGED <<presenceVars, userStatus, callDocs, nextObj, timerVars, ledgerVars,
                   completing, starting, sweeping, lockVars>>

\* Lines 2308-2369: the push-only path, after sendIncomingCallNotification.
InitiateFcm(i, fcmSent) ==
    /\ i \in initiating
    /\ i.pc = "awaitFcm"
    /\ IF fcmSent
       THEN /\ activeCalls' = SetStatusOfObject(activeCalls, i.callId, i.obj, "pending_fcm")
            /\ Emit({Msg("call_initiated", i.callId, i.s)})
            /\ ringTimeouts' = ringTimeouts \cup {RingTimeout("fcm", i)}
       ELSE /\ activeCalls' = SetStatusOfObject(activeCalls, i.callId, i.obj, "failed")
            /\ Emit({Msg("call_failed", i.callId, i.s)})
            /\ UNCHANGED ringTimeouts
    /\ initiating' = initiating \ {i}
    /\ UNCHANGED <<presenceVars, userStatus, callDocs, nextObj, timerVars, ledgerVars,
                   completing, starting, sweeping, lockVars>>

(***************************************************************************)
(* The setTimeout callbacks of initiate_call (30 s on the live-socket      *)
(* path, 60 s on the push path).  A timeout is never cleared: it fires     *)
(* once, whatever happened to the call meanwhile.                          *)
(***************************************************************************)
\* activeCalls with the entry of callId c left in place.
KeepActiveCall(calls, c) == calls

\* deleteActiveCallSync: activeCalls.delete(callId)
DeleteActiveCall(calls, c) == [calls EXCEPT ![c] = NoCall]

RingTimeoutFires(t) ==
    LET currentCall == activeCalls[t.callId]
        hit == IF t.kind = "ws"
               THEN currentCall.status = "ringing"
               ELSE currentCall.status \in {"pending_fcm", "ringing"}
    IN  /\ t \in ringTimeouts
        /\ ringTimeouts' = ringTimeouts \ {t}
        /\ IF hit
           THEN /\ activeCalls' = DeleteActiveCall(activeCalls, t.callId)
                /\ callDocs' = UpdateCallInFirestore(callDocs, t.callId, "timeout")
                /\ IF t.kind = "ws"
                   THEN /\ userStatus' = [userStatus EXCEPT ![t.recipientId] = AvailableStatus]
                        /\ Emit({Msg("call_timeout", t.callId, t.recipientSocketId),
                                       Msg("call_timeout", t.callId, t.s)})
                   ELSE /\ userStatus' = userStatus
                        /\ Emit({Msg("call_timeout", t.callId, t.s)})
           ELSE /\ Emit({})
                /\ UNCHANGED <<userStatus, activeCalls, callDocs>>
        /\ UNCHANGED <<presenceVars, nextObj, timerVars, ledgerVars, inflightVars>>

(***************************************************************************)
(* socket.on('accept_call').  callerId and recipientId come from the       *)
(* message.  The billing timer is started unless the callId has one.       *)
(***************************************************************************)
Requester == <<"requester", 0>>

BusyStatus(callId) == [status |-> "busy", currentCallId |-> callId]

AcceptCall(callId, callerId, recipientId) ==
    LET call == activeCalls[callId]
        coinRate == CoinRate(call.callType)
        obj == timersCreated + 1
    IN  IF ~HasCall(callId) \/ call.recipientId # recipientId
        THEN /\ Emit({Msg("error", callId, Requester)})
             /\ UNCHANGED <<presenceVars, callVars, timerVars, ledgerVars, inflightVars>>
        ELSE /\ Len(call.participants) < MaxParticipants
             /\ userStatus' = [userStatus EXCEPT ![callerId] = BusyStatus(callId),
                                                 ![recipientId] = BusyStatus(callId)]
             /\ activeCalls' = [activeCalls EXCEPT
                    ![callId].status = "accepted",
                    ![callId].participants = Append(@, recipientId)]
             /\ IF ~HasTimer(callId)
                THEN /\ timersCreated < MaxTimers
                     /\ timersCreated' = obj
                     /\ callTimers' = [callTimers EXCEPT ![callId] =
                            NewTimer(obj, coinRate, callerId, recipientId, call.callType)]
                     /\ liveIntervals' = liveIntervals \cup {<<callId, obj>>}
                     /\ callDocs' = SaveCallToFirestore(callDocs, callId, "active")
                ELSE UNCHANGED <<timerVars, callDocs>>
             /\ Emit(EmitToUser(connectedUsers, callerId, "call_accepted", callId))
             /\ UNCHANGED <<presenceVars, ringTimeouts, nextObj, ledgerVars, inflightVars>>

(***************************************************************************)
(* socket.on('decline_call')                                               *)
(***************************************************************************)
DeclineCall(callId, callerId, recipientId) ==
    IF ~HasCall(callId)
    THEN /\ Emit({Msg("error", callId, Requester)})
         /\ UNCHANGED <<presenceVars, callVars, timerVars, ledgerVars, inflightVars>>
    ELSE /\ userStatus' = [userStatus EXCEPT ![recipientId] = AvailableStatus]
         /\ Emit(EmitToUser(connectedUsers, callerId, "call_declined", callId))
         \* completeCallSync
         /\ activeCalls' = [activeCalls EXCEPT ![callId] = NoCall]
         /\ callDocs' = UpdateCallInFirestore(callDocs, callId, "declined")
         /\ UNCHANGED <<presenceVars, ringTimeouts, nextObj, timerVars, ledgerVars,
                        inflightVars>>

(***************************************************************************)
(* socket.on('end_call'): the timer's interval is cleared, the entry of    *)
(* callTimers stays.                                                       *)
(***************************************************************************)
EndCall(callId) ==
    LET call == activeCalls[callId]
        serverTimer == callTimers[callId]
    IN  IF ~HasCall(callId)
        THEN /\ Emit({Msg("error", callId, Requester)})
             /\ UNCHANGED <<presenceVars, callVars, timerVars, ledgerVars, inflightVars>>
        ELSE /\ liveIntervals' = IF serverTimer.present
                                 THEN ClearInterval(liveIntervals, callId, serverTimer.obj)
                                 ELSE liveIntervals
             /\ userStatus' = ResetAll(userStatus, call.participants)
             /\ Emit(UNION {EmitToUser(connectedUsers, p, "call_ended", callId) :
                                    p \in SeqToSet(call.participants)})
             /\ activeCalls' = [activeCalls EXCEPT ![callId] = NoCall]
             /\ callDocs' = UpdateCallInFirestore(callDocs, callId, "ended")
             /\ UNCHANGED <<presenceVars, ringTimeouts, nextObj, callTimers, timersCreated,
                            ledgerVars, inflightVars>>

(***************************************************************************)
(* socket.on('cancel_call')                                                *)
(***************************************************************************)
CancelCall(callId, recipientId) ==
    /\ Emit(IF connectedUsers[recipientId].present
                  THEN {Msg("call_cancelled", callId, connectedUsers[recipientId].socketId),
                        Msg("call_ended", callId, connectedUsers[recipientId].socketId)}
                  ELSE {})
    /\ callDocs' = UpdateCallInFirestore(callDocs, callId, "cancelled")
    /\ IF HasCall(callId)
       THEN /\ userStatus' = [userStatus EXCEPT ![recipientId] = AvailableStatus]
            /\ activeCalls' = [activeCalls EXCEPT ![callId] = NoCall]
       ELSE UNCHANGED <<userStatus, activeCalls>>
    /\ UNCHANGED <<presenceVars, ringTimeouts, nextObj, timerVars, ledgerVars, inflightVars>>

(***************************************************************************)
(* Liveness signals: POST /api/calls/heartbeat and call_ping refresh the   *)
(* timer of a callId, health_ping those of a user.  `stale` stands for     *)
(* now - lastHeartbeat > HEARTBEAT_TIMEOUT_MS.                             *)
(***************************************************************************)
Heartbeat(callId) ==
    /\ HasTimer(callId)
    /\ callTimers' = [callTimers EXCEPT ![callId].stale = FALSE]
    /\ Emit({Msg("heartbeat", callId, Http)})
    /\ UNCHANGED <<presenceVars, callVars, liveIntervals, timersCreated, ledgerVars,
                   inflightVars>>

HealthPing(u) ==
    /\ callTimers' = [c \in CallIds |->
           IF callTimers[c].present
              /\ (callTimers[c].callerId = u \/ callTimers[c].recipientId = u)
           THEN [callTimers[c] EXCEPT !.stale = FALSE]
           ELSE callTimers[c]]
    /\ Emit({Msg("health_pong", Null, Requester)})
    /\ UNCHANGED <<presenceVars, callVars, liveIntervals, timersCreated, ledgerVars,
                   inflightVars>>

\* HEARTBEAT_TIMEOUT_MS pass without a signal for the timer of callId.
HeartbeatLapses(callId) ==
    /\ HasTimer(callId)
    /\ ~callTimers[callId].stale
    /\ callTimers' = [callTimers EXCEPT ![callId].stale = TRUE]
    /\ Emit({})
    /\ UNCHANGED <<presenceVars, callVars, liveIntervals, timersCreated, ledgerVars,
                   inflightVars>>

(***************************************************************************)
(* One second passes for callId: every running interval created for it     *)
(* fires once and increments the entry callTimers holds for the callId.    *)
(***************************************************************************)
IntervalsOf(live, callId) == {h \in live : h[1] = callId}

Tick(callId) ==
    LET n == Cardinality(IntervalsOf(liveIntervals, callId))
    IN  /\ HasTimer(callId)
        /\ n > 0
        /\ callTimers[callId].durationSeconds + n <= MaxDuration
        /\ callTimers' = [callTimers EXCEPT ![callId].durationSeconds = @ + n]
        /\ Emit({})
        /\ UNCHANGED <<presenceVars, callVars, liveIntervals, timersCreated, ledgerVars,
                       inflightVars>>

(***************************************************************************)
(* POST /api/start_call_tracking: a new interval and a new entry, whatever *)
(* callTimers already holds for the call_id.                               *)
(***************************************************************************)
StartCallTracking(callId, callerId, recipientId, callType) ==
    LET obj == timersCreated + 1
    IN  /\ timersCreated < MaxTimers
        /\ timersCreated' = obj
        /\ liveIntervals' = liveIntervals \cup {<<callId, obj>>}
        /\ callTimers' = [callTimers EXCEPT ![callId] =
               NewTimer(obj, CoinRate(callType), callerId, recipientId, callType)]
        /\ Emit({Msg("tracking_started", callId, Http)})
        /\ UNCHANGED <<presenceVars, callVars, ledgerVars, inflightVars>>

(***************************************************************************)
(* POST /api/complete_call (legacy): stops the timer and reports           *)
(* serverDuration * coinRate; no balance is touched.                       *)
(***************************************************************************)
CompleteCallLegacy(callId) ==
    LET serverTimer == callTimers[callId]
        serverDuration == serverTimer.durationSeconds
        serverCoinsDeducted == RawCoinsFifths(serverDuration, serverTimer.coinRate)
    IN  /\ HasTimer(callId)
        /\ liveIntervals' = ClearInterval(liveIntervals, callId, serverTimer.obj)
        /\ callTimers' = DeleteTimer(callTimers, callId)
        /\ Emit({StopMsg("complete_call", callId, serverDuration,
                               serverTimer.coinRate, serverCoinsDeducted)})
        /\ UNCHANGED <<presenceVars, callVars, timersCreated, ledgerVars, inflightVars>>

(***************************************************************************)
(* POST /api/calls/start: the availability check, then (after the awaits   *)
(* on the caller's balance and the Firestore save) a new interval and a    *)
(* new entry, whatever callTimers already holds for the callId.            *)
(***************************************************************************)
StartRec(callId, callerId, recipientId, callType) ==
    [callId |-> callId, callerId |-> callerId, recipientId |-> recipientId,
     callType |-> callType]

CallsStartBegin(callId, callerId, recipientId, callType) ==
    LET recipientStatus == userStatus[recipientId]
        actualStatus == IF HasConnection(recipientId)
                        THEN (IF recipientStatus.status = "undefined" THEN "available"
                              ELSE recipientStatus.status)
                        ELSE "unavailable"
        r == StartRec(callId, callerId, recipientId, callType)
    IN  /\ Cardinality(starting) < MaxInflight
        /\ r \notin starting
        /\ actualStatus = "available"
        /\ starting' = starting \cup {r}
        /\ Emit({})
        /\ UNCHANGED <<presenceVars, callVars, timerVars, ledgerVars,
                       initiating, completing, sweeping, lockVars>>

CallsStartFinish(r) ==
    LET callerBalance == balance[r.callerId]
        obj == timersCreated + 1
    IN  /\ r \in starting
        /\ starting' = starting \ {r}
        /\ IF callerBalance < RequiredBalance(r.callType)
           THEN /\ Emit({Msg("insufficient_balance", r.callId, Http)})
                /\ UNCHANGED <<callDocs, timerVars>>
           ELSE /\ timersCreated < MaxTimers
                /\ callDocs' = SaveCallToFirestore(callDocs, r.callId, "initiated")
                /\ timersCreated' = obj
                /\ liveIntervals' = liveIntervals \cup {<<r.callId, obj>>}
                /\ callTimers' = [callTimers EXCEPT ![r.callId] =
                       NewTimer(obj, CoinRate(r.callType), r.callerId, r.recipientId,
                                r.callType)]
                /\ Emit({Msg("call_started", r.callId, Http)})
        /\ UNCHANGED <<presenceVars, userStatus, activeCalls, ringTimeouts, nextObj,
                       ledgerVars, initiating, completing, sweeping, lockVars>>

(***************************************************************************)
(* POST /api/calls/complete.  With a server timer: the interval is cleared *)
(* and deductUserCoins is invoked, the handler awaits, and only then is    *)
(* the entry deleted and are the two users reset.                          *)
(***************************************************************************)
CompleteRec(req, callId, serverTimer, payer, serverDuration, coinsDeducted) ==
    [req |-> req, callId |-> callId, obj |-> serverTimer.obj, callerId |-> serverTimer.callerId,
     recipientId |-> serverTimer.recipientId, payer |-> payer,
     serverDuration |-> serverDuration, coinsDeducted |-> coinsDeducted]

\* client_duration_seconds and client_coins_deducted of the request body;
\* given is client_duration_seconds !== undefined.
NoReport == [given |-> FALSE, durationSeconds |-> 0, coinsDeducted |-> 0]
ClientReports ==
    {NoReport} \cup
    {[given |-> TRUE, durationSeconds |-> d, coinsDeducted |-> k] :
        d \in {0, MaxDuration}, k \in {0, MaxDuration}}

\* The duration the client reports when it reports one.
ReportedDuration(serverTimer, client) ==
    IF client.given THEN client.durationSeconds ELSE serverTimer.durationSeconds

\* const serverDuration = serverTimer.durationSeconds
BilledDuration(serverTimer, client) == serverTimer.durationSeconds

\* The body of the response when there is no server timer.
NoTimerResponse(callId, client) ==
    IF client.given
    THEN [Msg("client_fallback", callId, Http) EXCEPT
             !.durationSeconds = client.durationSeconds,
             !.coinsFifths = client.coinsDeducted * FifthsPerCoin]
    ELSE Msg("already_completed", callId, Http)

CallsCompleteBegin(callId, callerId, client) ==
    LET serverTimer == callTimers[callId]
        serverDuration == BilledDuration(serverTimer, client)
        coinsDeducted == CoinsToDeduct(serverDuration, serverTimer.coinRate)
        \* finalCallerId || serverTimer.callerId
        payer == IF callerId # Null THEN callerId ELSE serverTimer.callerId
        \* the request is told from others in flight by a number
        req == CHOOSE n \in 1..MaxInflight :
                  /\ \A x \in completing : x.req # n
                  /\ \A k \in 1..(n - 1) : \E x \in completing : x.req = k
        r == CompleteRec(req, callId, serverTimer, payer, serverDuration, coinsDeducted)
    IN  IF ~HasTimer(callId)
        THEN /\ callDocs' = IF client.given
                            THEN UpdateCallInFirestore(callDocs, callId, "completed")
                            ELSE callDocs
             /\ Emit({NoTimerResponse(callId, client)})
             /\ UNCHANGED <<presenceVars, userStatus, activeCalls, ringTimeouts, nextObj,
                            timerVars, ledgerVars, inflightVars>>
        ELSE /\ Cardinality(completing) < MaxInflight
             /\ liveIntervals' = ClearInterval(liveIntervals, callId, serverTimer.obj)
             /\ DeductUserCoins(payer, coinsDeducted, callId)
             /\ completing' = completing \cup {r}
             /\ Emit({StopMsg("calls_complete", callId, serverDuration,
                                    serverTimer.coinRate, coinsDeducted * FifthsPerCoin)})
             /\ UNCHANGED <<presenceVars, callVars, callTimers, timersCreated,
                            initiating, starting, sweeping, lockVars>>

CallsCompleteFinish(r) ==
    /\ r \in completing
    /\ completing' = completing \ {r}
    /\ callDocs' = UpdateCallInFirestore(callDocs, r.callId, "completed")
    /\ callTimers' = DeleteTimer(callTimers, r.callId)
    /\ userStatus' = [userStatus EXCEPT ![r.callerId] = AvailableStatus,
                                        ![r.recipientId] = AvailableStatus]
    /\ Emit({Msg("completed", r.callId, Http)})
    /\ UNCHANGED <<presenceVars, activeCalls, ringTimeouts, nextObj, liveIntervals,
                   timersCreated, ledgerVars, initiating, starting, sweeping, lockVars>>

(***************************************************************************)
(* The heartbeat sweep (setInterval, every HEARTBEAT_CHECK_INTERVAL_MS).   *)
(* It walks a snapshot of callTimers; for a stale timer it clears the      *)
(* interval, invokes deductUserCoins and awaits, and only then deletes the *)
(* entry, resets the two users and removes the call.  `sweeping` holds the *)
(* snapshot entries still to do; its head is the one being awaited.        *)
(***************************************************************************)
SweepEntry(c, timers) == [callId |-> c, obj |-> timers[c].obj, timer |-> timers[c]]

\* Array.from(callTimers.entries()), in some insertion order.
Snapshots(timers) ==
    LET present == {c \in CallIds : timers[c].present}
        n == Cardinality(present)
    IN  {[k \in 1..n |-> SweepEntry(order[k], timers)] :
            order \in {f \in [1..n -> present] : \A a, b \in 1..n : a # b => f[a] # f[b]}}

\* The timer object of a snapshot entry: the entry of callTimers while it is
\* still that object, else the object as the snapshot saw it.
TimerObject(e, timers) ==
    IF timers[e.callId].present /\ timers[e.callId].obj = e.obj
    THEN timers[e.callId] ELSE e.timer

RECURSIVE SkipFresh(_, _)
SkipFresh(q, timers) ==
    IF q = <<>> THEN q
    ELSE IF TimerObject(Head(q), timers).stale THEN q
    ELSE SkipFresh(Tail(q), timers)

\* The loop from entry q[1] up to the next await: the first stale entry has its
\* interval cleared and deductUserCoins invoked for it.
SweepStep(q, timers, live, bal, dc, ch) ==
    LET q1 == SkipFresh(q, timers)
        e == Head(q1)
        timer == TimerObject(e, timers)
        finalDuration == timer.durationSeconds
        coinsToDeduct == CoinsToDeduct(finalDuration, timer.coinRate)
        ok == DeductSucceeds(bal, timer.callerId, coinsToDeduct)
    IN  IF q1 = <<>>
        THEN [sweeping |-> <<>>, live |-> live, balance |-> bal, deductCalls |-> dc,
              charged |-> ch, out |-> {}]
        ELSE [sweeping |-> <<[e EXCEPT !.timer = timer]>> \o Tail(q1),
              live |-> ClearInterval(live, e.callId, e.obj),
              balance |-> BalanceAfterDeduct(bal, timer.callerId, coinsToDeduct),
              deductCalls |-> [dc EXCEPT ![e.callId] = Min(@ + 1, MaxDeductCalls)],
              charged |-> [ch EXCEPT ![e.callId] = IF ok THEN @ + coinsToDeduct ELSE @],
              out |-> {StopMsg("sweep", e.callId, finalDuration, timer.coinRate,
                               coinsToDeduct * FifthsPerCoin)}]

SweepStart ==
    /\ sweeping = <<>>
    /\ \E c \in CallIds : callTimers[c].present /\ callTimers[c].stale
    /\ \E q \in Snapshots(callTimers) :
          LET r == SweepStep(q, callTimers, liveIntervals, balance, deductCalls, charged)
          IN  /\ sweeping' = r.sweeping
              /\ liveIntervals' = r.live
              /\ balance' = r.balance
              /\ deductCalls' = r.deductCalls
              /\ charged' = r.charged
              /\ Emit(r.out)
    /\ UNCHANGED <<presenceVars, callVars, callTimers, timersCreated, fsAvailable,
                   initiating, completing, starting, lockVars>>

SweepFinish ==
    LET e == Head(sweeping)
        timer == e.timer
        timers1 == DeleteTimer(callTimers, e.callId)
        r == SweepStep(Tail(sweeping), timers1, liveIntervals, balance, deductCalls, charged)
    IN  /\ sweeping # <<>>
        /\ callDocs' = UpdateCallInFirestore(callDocs, e.callId, "timeout_heartbeat")
        /\ callTimers' = timers1
        /\ userStatus' = [userStatus EXCEPT ![timer.callerId] = AvailableStatus,
                                            ![timer.recipientId] = AvailableStatus]
        /\ activeCalls' = [activeCalls EXCEPT ![e.callId] = NoCall]
        /\ sweeping' = r.sweeping
        /\ liveIntervals' = r.live
        /\ balance' = r.balance
        /\ deductCalls' = r.deductCalls
        /\ charged' = r.charged
        /\ Emit(EmitToUser(connectedUsers, timer.callerId, "call_ended", e.callId)
                      \cup EmitToUser(connectedUsers, timer.recipientId, "call_ended", e.callId)
                      \cup r.out)
        /\ UNCHANGED <<presenceVars, ringTimeouts, nextObj, timersCreated, fsAvailable,
                       initiating, completing, starting, lockVars>>

(***************************************************************************)
(* ScalabilityManager.acquireCallLock and releaseCallLock: the Redis key   *)
(* call_lock:<recipientId>, whose value is the callerId and which Redis    *)
(* removes when its TTL runs out.  acquireCallLock is one Redis command;   *)
(* releaseCallLock is a GET and, after an await, a DEL.  A Redis error is  *)
(* caught and answered with false.  server.js calls neither function.      *)
(***************************************************************************)
\* The answer of acquireCallLock or releaseCallLock to its caller.
LockReply(ev, recipientId, callerId) ==
    [ev |-> ev, callId |-> Null, to |-> <<callerId, 0>>, durationSeconds |-> 0,
     coinRate |-> 0, coinsFifths |-> 0, recipientId |-> recipientId]

\* redis.set(key, value): the key is written whether or not it exists.
RedisSet(locks, key, value) ==
    [ok |-> TRUE, locks |-> [locks EXCEPT ![key] = value]]

\* redis.set(lockKey, callerId, 'NX', 'EX', ttlSeconds): 'OK' only when the
\* key does not exist.
RedisSetNX(locks, key, value) ==
    IF locks[key] = Null
    THEN [ok |-> TRUE, locks |-> [locks EXCEPT ![key] = value]]
    ELSE [ok |-> FALSE, locks |-> locks]

\* The key is gone (DEL or TTL): nobody holds a grant on it any more.
RemoveKey(locks, key) == [locks EXCEPT ![key] = Null]

AcquireCallLock(recipientId, callerId, redisUp) ==
    LET result == RedisSetNX(callLocks, recipientId, callerId)
        granted == redisUp /\ result.ok
    IN  /\ callLocks' = IF granted THEN result.locks ELSE callLocks
        /\ lockGrants' = IF granted
                         THEN [lockGrants EXCEPT ![recipientId] = @ \cup {callerId}]
                         ELSE lockGrants
        /\ Emit({LockReply(IF granted THEN "lock_acquired" ELSE "lock_denied",
                           recipientId, callerId)})
        /\ UNCHANGED <<presenceVars, callVars, timerVars, ledgerVars,
                       initiating, completing, starting, sweeping, releasing>>

\* releaseCallLock up to the await of redis.get: currentHolder is read.
ReleaseCallLockGet(recipientId, callerId, redisUp) ==
    LET currentHolder == callLocks[recipientId]
        owned == redisUp /\ currentHolder = callerId
    IN  /\ Cardinality(releasing) < MaxInflight
        /\ releasing' = IF owned
                        THEN releasing \cup {[recipientId |-> recipientId,
                                              callerId |-> callerId]}
                        ELSE releasing
        /\ Emit(IF owned THEN {}
                ELSE {LockReply("release_refused", recipientId, callerId)})
        /\ UNCHANGED <<presenceVars, callVars, timerVars, ledgerVars,
                       initiating, completing, starting, sweeping, callLocks, lockGrants>>

\* releaseCallLock after the await: redis.del(lockKey), whatever the key
\* holds by now.
ReleaseCallLockDel(x, redisUp) ==
    /\ x \in releasing
    /\ releasing' = releasing \ {x}
    /\ callLocks' = IF redisUp THEN RemoveKey(callLocks, x.recipientId) ELSE callLocks
    /\ lockGrants' = IF redisUp THEN [lockGrants EXCEPT ![x.recipientId] = {}]
                     ELSE lockGrants
    /\ Emit({LockReply(IF redisUp THEN "lock_released" ELSE "release_refused",
                       x.recipientId, x.callerId)})
    /\ UNCHANGED <<presenceVars, callVars, timerVars, ledgerVars,
                   initiating, completing, starting, sweeping>>

\* The TTL of the key runs out ('EX', ttlSeconds): Redis removes it.
LockExpires(recipientId) ==
    /\ callLocks[recipientId] # Null
    /\ callLocks' = RemoveKey(callLocks, recipientId)
    /\ lockGrants' = [lockGrants EXCEPT ![recipientId] = {}]
    /\ Emit({})
    /\ UNCHANGED <<presenceVars, callVars, timerVars, ledgerVars,
                   initiating, completing, starting, sweeping, releasing>>

(***************************************************************************)
(* The system.                                                             *)
(***************************************************************************)
MaybeUsers == Users \cup {Null}

Next ==
    \/ \E s \in Sockets : Join(s)
    \/ \E s \in Sockets : JoinStart(s)
    \/ \E j \in joining : JoinLoaded(j)
    \/ \E s \in Sockets : Disconnect(s)
    \/ \E d \in disconnecting : DisconnectArms(d)
    \/ \E t \in graceTimers : DisconnectTimeoutFires(t)
    \/ \E e \in expiring : DisconnectTimeoutDone(e)
    \/ \E u \in Users, b \in BOOLEAN : UpdateAvailability(u, b)
    \/ \E s \in Sockets, r \in Users, t \in CallTypes, c \in CallIds, named \in BOOLEAN :
          InitiateCall(s, r, t, c, named)
    \/ \E i \in initiating : InitiateResume(i)
    \/ \E i \in initiating : InitiateRinging(i)
    \/ \E i \in initiating, fcmSent \in BOOLEAN : InitiateFcm(i, fcmSent)
    \/ \E t \in ringTimeouts : RingTimeoutFires(t)
    \/ \E c \in CallIds, a \in Users, r \in Users : AcceptCall(c, a, r)
    \/ \E c \in CallIds, a \in Users, r \in Users : DeclineCall(c, a, r)
    \/ \E c \in CallIds : EndCall(c)
    \/ \E c \in CallIds, r \in Users : CancelCall(c, r)
    \/ \E c \in CallIds : Heartbeat(c)
    \/ \E u \in Users : HealthPing(u)
    \/ \E c \in CallIds : HeartbeatLapses(c)
    \/ \E c \in CallIds : Tick(c)
    \/ \E c \in CallIds, a \in Users, r \in Users, t \in CallTypes :
          StartCallTracking(c, a, r, t)
    \/ \E c \in CallIds : CompleteCallLegacy(c)
    \/ \E c \in CallIds, a \in Users, r \in Users, t \in CallTypes :
          CallsStartBegin(c, a, r, t)
    \/ \E r \in starting : CallsStartFinish(r)
    \/ \E c \in CallIds, a \in MaybeUsers, k \in ClientReports :
          CallsCompleteBegin(c, a, k)
    \/ \E r \in completing : CallsCompleteFinish(r)
    \/ SweepStart
    \/ SweepFinish

Spec == Init /\ [][Next]_vars

(***************************************************************************)
(* Call control with well-behaved clients: one device per user, audio      *)
(* calls to users that are connected, and accept_call, decline_call and    *)
(* cancel_call messages that carry the ids of the session they name.       *)
(***************************************************************************)
SocketOf(u) == <<u, 1>>

FirstSockets == {SocketOf(u) : u \in Users}

\* The <<callerId, recipientId>> a client puts in a message about callId c.
\* Without a session the handlers answer alike whatever the ids: one pair
\* stands for all.
PartiesOf(c) ==
    IF HasCall(c) THEN {<<activeCalls[c].callerId, activeCalls[c].recipientId>>}
    ELSE {<<"u1", "u2">>}

\* A client names a new call by a callId that no call has had yet.
FreshCallId(c) ==
    /\ ~HasCall(c)
    /\ callDocs[c] \in {"none", "initiated"}
    /\ \A i \in initiating : i.callId # c

CallControlNext ==
    \/ \E s \in FirstSockets : Join(s)
    \/ \E s \in FirstSockets, r \in Users, c \in CallIds, named \in BOOLEAN :
          /\ connectedUsers[r].present
          /\ FreshCallId(c)
          /\ InitiateCall(s, r, "audio", c, named)
    \/ \E i \in initiating : InitiateResume(i)
    \/ \E i \in initiating : InitiateRinging(i)
    \/ \E t \in ringTimeouts : RingTimeoutFires(t)
    \/ \E c \in CallIds : \E p \in PartiesOf(c) : AcceptCall(c, p[1], p[2])
    \/ \E c \in CallIds : \E p \in PartiesOf(c) : DeclineCall(c, p[1], p[2])
    \/ \E c \in CallIds : EndCall(c)
    \/ \E c \in CallIds : \E p \in PartiesOf(c) : CancelCall(c, p[2])

SpecCalls == InitObserving({}) /\ [][CallControlNext]_vars

\* The sessions of activeCalls that are ringing or accepted and have user u
\* among their participants.
LiveSessionsOf(u) ==
    {c \in CallIds : /\ activeCalls[c].status \in {"ringing", "accepted"}
                     /\ u \in SeqToSet(activeCalls[c].participants)}

\* C1: in every reachable state every user is a participant of at most one
\* session of activeCalls whose status is ringing or accepted.
C1_AtMostOneLiveSessionPerUser ==
    \A u \in Users : Cardinality(LiveSessionsOf(u)) <= 1

\* The step creates a session under callId c.
CreatesSession(c) == nextObj' = nextObj + 1 /\ activeCalls'[c].obj = nextObj'

\* The caller of the session that user r is ringing or busy for, if any.
HoldersOf(r) ==
    IF userStatus[r].status \in {"ringing", "busy"} /\ userStatus[r].currentCallId # Null
    THEN {activeCalls[c].callerId : c \in {userStatus[r].currentCallId} \cap
                                         {d \in CallIds : HasCall(d)}}
    ELSE {}

\* C3: an initiate_call handler creates a session for recipient R and puts R
\* into ringing only if R is not at that moment ringing or busy for the
\* session of another caller: of two interleaved handlers from distinct
\* callers that target R, at most one creates a session.
C3_OneInitiatePerRecipient ==
    [][\A r \in Users, c \in CallIds :
          (/\ CreatesSession(c)
           /\ activeCalls'[c].recipientId = r
           /\ userStatus'[r] = [status |-> "ringing", currentCallId |-> c])
          => HoldersOf(r) \subseteq {activeCalls'[c].callerId}]_vars

\* The status of the session of callId c: that of the call object while it is
\* in activeCalls, afterwards the one recorded in its Firestore document.
StatusOf(c) == IF HasCall(c) THEN activeCalls[c].status ELSE callDocs[c]

TerminalStatuses == {"ended", "declined", "cancelled", "timeout", "disconnected", "failed"}

\* C6: a session's status never moves backwards: an accepted session does not
\* become declined, cancelled or timeout, and a session in a terminal status
\* keeps that status, whatever event comes later.
C6_StatusNeverRegresses ==
    [][\A c \in CallIds :
          ~CreatesSession(c) =>
              /\ StatusOf(c) = "accepted" =>
                     StatusOf(c)' \notin {"declined", "cancelled", "timeout"}
              /\ StatusOf(c) \in TerminalStatuses => StatusOf(c)' = StatusOf(c)]_vars

(***************************************************************************)
(* One audio call between caller u1 and recipient u2 with well-behaved     *)
(* clients, in two parts.  TrackingNext: the call is set up and resolved   *)
(* while the tracking endpoints start timers, the clock ticks and the      *)
(* sweep runs.  StopNext: the accepted call is stopped by end_call, the    *)
(* completion endpoints, a disconnect or the sweep.                        *)
(***************************************************************************)
StopEvents == {"calls_complete", "complete_call", "disconnect", "sweep"}

PairSockets == {SocketOf("u1"), SocketOf("u2")}

InitiatePairCall ==
    /\ connectedUsers["u2"].present
    /\ FreshCallId("c1")
    /\ InitiateCall(SocketOf("u1"), "u2", "audio", "c1", TRUE)

TrackingNext ==
    \/ \E s \in PairSockets : Join(s)
    \/ InitiatePairCall
    \/ \E i \in initiating : InitiateRinging(i)
    \/ \E t \in ringTimeouts : RingTimeoutFires(t)
    \/ \E p \in PartiesOf("c1") : AcceptCall("c1", p[1], p[2])
    \/ \E p \in PartiesOf("c1") : DeclineCall("c1", p[1], p[2])
    \/ \E p \in PartiesOf("c1") : CancelCall("c1", p[2])
    \/ HeartbeatLapses("c1")
    \/ Tick("c1")
    \/ StartCallTracking("c1", "u1", "u2", "audio")
    \/ CallsStartBegin("c1", "u1", "u2", "audio")
    \/ \E r \in starting : CallsStartFinish(r)
    \/ SweepStart
    \/ SweepFinish

SpecTracking == InitObserving({}) /\ [][TrackingNext]_vars

StopNext ==
    \/ \E s \in PairSockets : Join(s)
    \/ \E s \in PairSockets : Disconnect(s)
    \/ InitiatePairCall
    \/ \E i \in initiating : InitiateRinging(i)
    \/ \E p \in PartiesOf("c1") : AcceptCall("c1", p[1], p[2])
    \/ EndCall("c1")
    \/ Heartbeat("c1")
    \/ HeartbeatLapses("c1")
    \/ Tick("c1")
    \/ CompleteCallLegacy("c1")
    \/ \E a \in {Null, "u1"}, k \in ClientReports : CallsCompleteBegin("c1", a, k)
    \/ \E r \in completing : CallsCompleteFinish(r)
    \/ SweepStart
    \/ SweepFinish

SpecStops == InitObserving(StopEvents) /\ [][StopNext]_vars

\* C4: starting billing for a callId that has an entry in callTimers is a
\* no-op: the entry stays the same object (its durationSeconds and startTime
\* are not reset) and no further interval is created for the callId.
C4_StartIsIdempotent ==
    [][\A c \in CallIds :
          HasTimer(c) =>
              /\ HasTimer(c)' => callTimers'[c].obj = callTimers[c].obj
              /\ IntervalsOf(liveIntervals', c) \subseteq IntervalsOf(liveIntervals, c)]_vars

\* C5: while a timer exists for a callId its durationSeconds never decreases
\* or resets, and one elapsed second increases it by exactly 1.
C5_DurationMonotonic ==
    [][\A c \in CallIds :
          (HasTimer(c) /\ HasTimer(c)') =>
              callTimers'[c].durationSeconds \in
                  {callTimers[c].durationSeconds, callTimers[c].durationSeconds + 1}]_vars

\* C2: deductUserCoins is invoked at most once for every callId, however
\* /api/calls/complete requests, a disconnect and the sweep interleave.
C2_DebitedAtMostOnce == \A c \in CallIds : deductCalls[c] <= 1

\* reported (fifths of a coin) is the least whole number of coins that is not
\* below raw (fifths of a coin).
IsCeilingOf(reported, raw) ==
    \E n \in 0..(raw + 1) :
        /\ reported = n * FifthsPerCoin
        /\ n * FifthsPerCoin >= raw
        /\ (n - 1) * FifthsPerCoin < raw

\* C7: every path that stops a timer and computes a charge reports
\* coinsDeducted = ceil(durationSeconds * coinRate).
C7_CeilingOnEveryStopPath ==
    \A m \in emitted :
        m.ev \in StopEvents =>
            IsCeilingOf(m.coinsFifths, m.durationSeconds * m.coinRate)

\* The step is end_call for the session of callId c.
EndsCall(c) == HasCall(c) /\ StatusOf(c)' = "ended"

\* C8: end_call on an accepted call with a running timer of duration d removes
\* the timer, takes ceil(d * coinRate) from the caller's balance, makes the
\* session ended and makes both participants available.
C8_EndCallBillsAndCleans ==
    [][\A c \in CallIds :
          (/\ EndsCall(c)
           /\ activeCalls[c].status = "accepted"
           /\ HasTimer(c)
           /\ <<c, callTimers[c].obj>> \in liveIntervals)
          => /\ ~HasTimer(c)'
             /\ balance'[activeCalls[c].callerId] =
                    balance[activeCalls[c].callerId]
                    - CoinsToDeduct(callTimers[c].durationSeconds, callTimers[c].coinRate)
             /\ userStatus'[activeCalls[c].callerId] = AvailableStatus
             /\ userStatus'[activeCalls[c].recipientId] = AvailableStatus]_vars

(***************************************************************************)
(* The call of u1 to u2 is never accepted: u2 declines, u1 cancels or the  *)
(* ring timeout fires.  The tracking endpoints are called only before the  *)
(* call is resolved.                                                       *)
(***************************************************************************)
Resolved(c) == callDocs[c] \in {"declined", "cancelled", "timeout"}

UnansweredNext ==
    \/ \E s \in PairSockets : Join(s)
    \/ InitiatePairCall
    \/ \E i \in initiating : InitiateRinging(i)
    \/ \E t \in ringTimeouts : RingTimeoutFires(t)
    \/ \E p \in PartiesOf("c1") : DeclineCall("c1", p[1], p[2])
    \/ HasCall("c1") /\ CancelCall("c1", activeCalls["c1"].recipientId)
    \/ ~Resolved("c1") /\ StartCallTracking("c1", "u1", "u2", "audio")
    \/ ~Resolved("c1") /\ CallsStartBegin("c1", "u1", "u2", "audio")
    \/ \E r \in starting : CallsStartFinish(r)
    \/ HeartbeatLapses("c1")
    \/ Tick("c1")
    \/ SweepStart
    \/ SweepFinish

SpecUnanswered == InitObserving({}) /\ [][UnansweredNext]_vars

\* C9: once a call that was never accepted is resolved by decline_call,
\* cancel_call or the ring timeout, its callId has no billing timer and no
\* deduction is ever made for it.
C9_UnansweredCallIsFree ==
    \A c \in CallIds :
        (Resolved(c) /\ ~HasCall(c)) =>
            /\ ~HasTimer(c)
            /\ deductCalls[c] = 0
            /\ charged[c] = 0

(***************************************************************************)
(* Calls of u1 to u2 ring and nobody accepts, declines or cancels them and *)
(* nobody disconnects.  The handler of initiate_call resumes after its     *)
(* awaits and an armed timeout fires: these are steps of the server that   *)
(* cannot be put off for ever.                                             *)
(***************************************************************************)
RingingNext ==
    \/ \E s \in FirstSockets : Join(s)
    \/ \E c \in CallIds, named \in BOOLEAN :
          /\ connectedUsers["u2"].present
          /\ FreshCallId(c)
          /\ InitiateCall(SocketOf("u1"), "u2", "audio", c, named)
    \/ \E i \in initiating : InitiateResume(i)
    \/ \E i \in initiating : InitiateRinging(i)
    \/ \E t \in ringTimeouts : RingTimeoutFires(t)
    \/ \E c \in CallIds : EndCall(c)

SpecRinging ==
    /\ InitObserving({"call_timeout"})
    /\ [][RingingNext]_vars
    /\ WF_vars(\E i \in initiating : InitiateResume(i))
    /\ WF_vars(\E i \in initiating : InitiateRinging(i))
    /\ WF_vars(\E t \in ringTimeouts : RingTimeoutFires(t))

\* The ring timeout of the session of callId c has taken effect: the session
\* left activeCalls with status timeout, recipient r is available and
\* call_timeout went to caller a and to recipient r.
TimedOut(c, a, r) ==
    /\ ~HasCall(c)
    /\ callDocs[c] = "timeout"
    /\ userStatus[r] = AvailableStatus
    /\ Msg("call_timeout", c, connectedUsers[a].socketId) \in emitted
    /\ Msg("call_timeout", c, connectedUsers[r].socketId) \in emitted

\* C10: a session that is ringing, and for which no accept, decline, cancel
\* or disconnect occurs, eventually gets status timeout and leaves
\* activeCalls, with its recipient available (currentCallId null) and
\* call_timeout sent to caller and recipient.
C10_RingingTimesOut ==
    \A c \in CallIds, a \in Users, r \in Users :
        (/\ activeCalls[c].status = "ringing"
         /\ activeCalls[c].callerId = a
         /\ activeCalls[c].recipientId = r) ~> TimedOut(c, a, r)

(***************************************************************************)
(* The call lock on its own: acquireCallLock and releaseCallLock called    *)
(* by any caller for any recipient, with Redis up or failing, and the TTL  *)
(* of a key running out at any moment.                                     *)
(***************************************************************************)
LockEvents == {"lock_acquired", "lock_denied", "lock_released", "release_refused"}

LockNext ==
    \/ \E r \in Users : \E a \in Users \ {r}, up \in BOOLEAN : AcquireCallLock(r, a, up)
    \/ \E r \in Users : \E a \in Users \ {r}, up \in BOOLEAN : ReleaseCallLockGet(r, a, up)
    \/ \E x \in releasing, up \in BOOLEAN : ReleaseCallLockDel(x, up)
    \/ \E r \in Users : LockExpires(r)

SpecLocks == InitObserving(LockEvents) /\ [][LockNext]_vars

\* C16: for every recipient, among the acquireCallLock calls made while the
\* key is neither deleted nor expired, at most one caller is answered true.
C16_AtMostOneGrantPerRecipient ==
    \A r \in Users : Cardinality(lockGrants[r]) <= 1

\* A second caller has just been refused the lock that another caller was
\* granted and still holds.
C16_SecondCallerRefused ==
    \E m \in emitted :
        /\ m.ev = "lock_denied"
        /\ callLocks[m.recipientId] \notin {Null, m.to[1]}
        /\ lockGrants[m.recipientId] = {callLocks[m.recipientId]}

\* C17: the DEL of releaseCallLock(R, A) never removes a key of R that is
\* held by a caller other than A.
C17_ReleaseKeepsOthersLock ==
    [][\A x \in releasing :
          (/\ callLocks[x.recipientId] \notin {Null, x.callerId}
           /\ ReleaseCallLockDel(x, TRUE))
          => callLocks'[x.recipientId] = callLocks[x.recipientId]]_vars

\* C18: a recipient is ringing for a call only while the call lock of that
\* recipient is held by the caller of the call, and once the session is
\* accepted the lock is no longer held by that caller.
C18_RingingOnlyUnderLock ==
    \A c \in CallIds :
        LET r == activeCalls[c].recipientId
            a == activeCalls[c].callerId
        IN  HasCall(c) =>
               /\ userStatus[r] = [status |-> "ringing", currentCallId |-> c]
                     => callLocks[r] = a
               /\ activeCalls[c].status = "accepted" => callLocks[r] # a

(***************************************************************************)
(* Calls to a recipient who is in a call: u1 and u3, each on one socket,   *)
(* place audio calls under fresh callIds to u2, who toggles availability,  *)
(* answers or lets the call time out.                                      *)
(***************************************************************************)
BusyEvents == {"call_failed"}

BusyNext ==
    \/ \E s \in FirstSockets : Join(s)
    \/ \E b \in BOOLEAN : UpdateAvailability("u2", b)
    \/ \E s \in FirstSockets \ {SocketOf("u2")}, c \in CallIds, named \in BOOLEAN :
          /\ connectedUsers["u2"].present
          /\ FreshCallId(c)
          /\ InitiateCall(s, "u2", "audio", c, named)
    \/ \E i \in initiating : InitiateResume(i)
    \/ \E i \in initiating : InitiateRinging(i)
    \/ \E t \in ringTimeouts : RingTimeoutFires(t)
    \/ \E c \in CallIds : \E p \in PartiesOf(c) : AcceptCall(c, p[1], p[2])
    \/ \E c \in CallIds : \E p \in PartiesOf(c) : DeclineCall(c, p[1], p[2])

SpecBusy == InitObserving(BusyEvents) /\ [][BusyNext]_vars

\* C11: an initiate_call whose recipient is busy or ringing is answered with
\* call_failed to the requesting socket, creates no session, and leaves
\* activeCalls and the recipient's status and currentCallId as they were.
C11_BusyRecipientRejects ==
    [][\A s \in Sockets, r \in Users, t \in CallTypes, c \in CallIds, named \in BOOLEAN :
          (/\ userStatus[r].status \in {"busy", "ringing"}
           /\ InitiateCall(s, r, t, c, named))
          => /\ Msg("call_failed", c, s) \in emitted'
             /\ activeCalls' = activeCalls
             /\ nextObj' = nextObj
             /\ initiating' = initiating
             /\ userStatus'[r] = userStatus[r]]_vars

\* A caller has just been sent call_failed for a new callId while the
\* recipient is ringing or busy in the session of another callId.
C11_RejectedWhileInSession ==
    \E m \in emitted, r \in Users, x \in CallIds :
        /\ m.ev = "call_failed"
        /\ m.callId # x
        /\ ~HasCall(m.callId)
        /\ userStatus[r].status \in {"busy", "ringing"}
        /\ userStatus[r].currentCallId = x
        /\ HasCall(x)
        /\ activeCalls[x].recipientId = r
        /\ m.to[1] \notin {r, activeCalls[x].callerId}

(***************************************************************************)
(* Calls to a recipient who is away: u1 places audio calls under fresh     *)
(* callIds to u3, who has a push token, joins, disconnects and toggles     *)
(* availability.                                                           *)
(***************************************************************************)
AwayEvents == {"call_failed", "incoming_call"}

AwayNext ==
    \/ \E s \in {SocketOf("u1"), SocketOf("u3")} : Join(s)
    \/ Disconnect(SocketOf("u3"))
    \/ \E d \in disconnecting : DisconnectArms(d)
    \/ \E b \in BOOLEAN : UpdateAvailability("u3", b)
    \/ \E c \in CallIds, named \in BOOLEAN :
          /\ FreshCallId(c)
          /\ InitiateCall(SocketOf("u1"), "u3", "audio", c, named)
    \/ \E i \in initiating : InitiateResume(i)
    \/ \E i \in initiating : InitiateRinging(i)
    \/ \E i \in initiating, fcmSent \in BOOLEAN : InitiateFcm(i, fcmSent)
    \/ \E t \in ringTimeouts : RingTimeoutFires(t)
    \/ \E c \in CallIds : \E p \in PartiesOf(c) : AcceptCall(c, p[1], p[2])

SpecAway == InitObserving(AwayEvents) /\ [][AwayNext]_vars

\* C20: initiate_call creates no session and sends no incoming_call for a
\* recipient whose status is unavailable or disconnected.
C20_NoCallToUnavailable ==
    [][\A r \in Users :
          userStatus[r].status \in {"unavailable", "disconnected"}
          => /\ \A c \in CallIds : ~(CreatesSession(c) /\ activeCalls'[c].recipientId = r)
             /\ \A m \in emitted' :
                   ~(/\ m.ev = "incoming_call"
                     /\ connectedUsers[r].present
                     /\ m.to = connectedUsers[r].socketId)]_vars

(***************************************************************************)
(* Presence: every user has SocketsPerUser sockets that join and close in  *)
(* any order, and toggles availability.                                    *)
(***************************************************************************)
PresenceNext ==
    \/ \E s \in Sockets : Join(s)
    \/ \E s \in Sockets : Disconnect(s)
    \/ \E d \in disconnecting : DisconnectArms(d)
    \/ \E u \in Users, b \in BOOLEAN : UpdateAvailability(u, b)

SpecPresence == InitObserving({"joined", "forced_disconnect"}) /\ [][PresenceNext]_vars

\* C19: in every reachable state every user has at most one live socket, the
\* one connectedUsers names; a join on socket s2 of a user registered on a
\* different socket s1 closes s1 and registers s2 with isOnline = true.
C19_OneLiveSocketPerUser ==
    /\ [](\A u \in Users :
             /\ Cardinality({s \in liveSockets : s[1] = u}) <= 1
             /\ \A s \in liveSockets : s[1] = u =>
                   connectedUsers[u].present /\ connectedUsers[u].socketId = s)
    /\ [][\A s2 \in Sockets :
             LET u == s2[1]
                 s1 == connectedUsers[u].socketId
             IN  (connectedUsers[u].present /\ s1 # s2 /\ Join(s2))
                 => /\ s1 \notin liveSockets'
                    /\ s2 \in liveSockets'
                    /\ connectedUsers'[u].socketId = s2
                    /\ connectedUsers'[u].isOnline]_vars

\* A user registered on a live socket has just joined on another one: the
\* first was told to close and the second is the only live one.
C19_JoinedOnSecondSocket ==
    \E u \in Users, m \in emitted, j \in emitted :
        /\ m.ev = "forced_disconnect"
        /\ m.to = <<u, 1>>
        /\ j.ev = "joined"
        /\ j.to = <<u, 2>>
        /\ connectedUsers[u].socketId = <<u, 2>>
        /\ connectedUsers[u].isOnline
        /\ liveSockets \cap {<<u, 1>>, <<u, 2>>} = {<<u, 2>>}

(***************************************************************************)
(* Hanging up: u1 calls u2 under callId c1, u2 accepts, the timer ticks,   *)
(* and the call is stopped by POST /api/calls/complete, with or without    *)
(* client-reported values, and by the disconnect of either socket.         *)
(***************************************************************************)
HangupEvents ==
    {"calls_complete", "client_fallback", "already_completed", "disconnect",
     "participant_disconnected", "call_ended"}

HangupNext ==
    \/ \E s \in PairSockets : Join(s)
    \/ \E s \in PairSockets : Disconnect(s)
    \/ InitiatePairCall
    \/ \E i \in initiating : InitiateRinging(i)
    \/ \E p \in PartiesOf("c1") : AcceptCall("c1", p[1], p[2])
    \/ Tick("c1")
    \/ \E a \in {Null, "u1"}, k \in ClientReports : CallsCompleteBegin("c1", a, k)
    \/ \E r \in completing : CallsCompleteFinish(r)

SpecHangup == InitObserving(HangupEvents) /\ [][HangupNext]_vars

\* C12: when the socket of a participant of an accepted call disconnects
\* while the timer of the call shows duration d, the timer is stopped and
\* removed, the session is removed with status disconnected, and the caller
\* is debited ceil(d * coinRate) by this step and by nothing else that read
\* the same timer.
C12_DisconnectBillsOnce ==
    [][\A s \in Sockets, c \in CallIds :
          LET u == s[1]
              d == callTimers[c].durationSeconds
              rate == callTimers[c].coinRate
          IN  (/\ connectedUsers[u].present
               /\ connectedUsers[u].socketId = s
               /\ userStatus[u].currentCallId = c
               /\ activeCalls[c].status = "accepted"
               /\ HasTimer(c)
               /\ Disconnect(s))
              => /\ ~callTimers'[c].present
                 /\ IntervalsOf(liveIntervals', c) = {}
                 /\ activeCalls'[c] = NoCall
                 /\ callDocs'[c] = "disconnected"
                 /\ balance'[activeCalls[c].callerId] =
                       balance[activeCalls[c].callerId] - CoinsToDeduct(d, rate)
                 /\ deductCalls'[c] <= deductCalls[c] + 1
                 \* nothing else has debited for this timer
                 /\ \A r \in completing :
                       r.obj = callTimers[c].obj => r.coinsDeducted = 0]_vars

\* C13: when a participant of an accepted call disconnects, the caller and
\* the recipient are both reset to available and the remaining participant
\* is sent participant_disconnected and call_ended for the callId.
C13_DisconnectResetsAndNotifies ==
    [][\A s \in Sockets, c \in CallIds :
          LET u == s[1]
              call == activeCalls[c]
              other == IF u = call.callerId THEN call.recipientId ELSE call.callerId
          IN  (/\ connectedUsers[u].present
               /\ connectedUsers[u].socketId = s
               /\ userStatus[u].currentCallId = c
               /\ call.status = "accepted"
               /\ u \in {call.callerId, call.recipientId}
               /\ HasConnection(other)
               /\ Disconnect(s))
              => /\ userStatus'[call.callerId] = AvailableStatus
                 /\ userStatus'[call.recipientId] = AvailableStatus
                 /\ Msg("participant_disconnected", c, connectedUsers[other].socketId)
                       \in emitted'
                 /\ Msg("call_ended", c, connectedUsers[other].socketId) \in emitted']_vars

\* C14: with a server timer, POST /api/calls/complete does the same whatever
\* client_duration_seconds and client_coins_deducted the request carries: the
\* same step is taken for any two client reports, and the duration and the
\* amount it returns and debits are those of the server timer.
C14_ClientReportIgnored ==
    [][\A c \in CallIds, a \in MaybeUsers, k1 \in ClientReports :
          (HasTimer(c) /\ CallsCompleteBegin(c, a, k1))
          => /\ \A k2 \in ClientReports : CallsCompleteBegin(c, a, k2)
             /\ \E m \in emitted' :
                   /\ m.ev = "calls_complete"
                   /\ m.callId = c
                   /\ m.durationSeconds = callTimers[c].durationSeconds
                   /\ IsCeilingOf(m.coinsFifths,
                                  callTimers[c].durationSeconds * callTimers[c].coinRate)
                   /\ balance' \in
                         {balance,
                          [balance EXCEPT ![IF a # Null THEN a ELSE callTimers[c].callerId] =
                              @ - (m.coinsFifths \div FifthsPerCoin)]}]_vars

\* POST /api/calls/complete has just stopped a timer whose duration is
\* neither of the durations a client reports, and has debited for it.
C14_ServerDurationBilled ==
    \E m \in emitted, r \in completing :
        /\ m.ev = "calls_complete"
        /\ m.durationSeconds \notin {k.durationSeconds : k \in ClientReports}
        /\ r.callId = m.callId
        /\ charged[m.callId] > 0
        /\ balance[r.payer] < InitialBalance[r.payer]

\* C15: once a call has been completed (its timer stopped, billed and
\* deleted, its document marked completed), a further
\* POST /api/calls/complete for the callId deducts nothing and answers with
\* durationSeconds 0 and coinsDeducted 0, whatever the client reports.
C15_RepeatedCompleteIsZero ==
    [][\A c \in CallIds, a \in MaybeUsers, k \in ClientReports :
          (/\ ~HasTimer(c)
           /\ deductCalls[c] > 0
           /\ callDocs[c] = "completed"
           /\ CallsCompleteBegin(c, a, k))
          => /\ balance' = balance
             /\ deductCalls' = deductCalls
             /\ charged' = charged
             /\ emitted' # {}
             /\ \A m \in emitted' : m.durationSeconds = 0 /\ m.coinsFifths = 0]_vars

(***************************************************************************)
(* A call that falls silent: u1 calls u2 under callId c1, u2 accepts, the  *)
(* timer ticks, nobody sends a heartbeat, the call may be hung up with     *)
(* end_call.  Time passes (the heartbeat lapses) and the sweep, a          *)
(* setInterval whose awaits resolve, runs again and again.                 *)
(***************************************************************************)
StaleEvents == {"sweep", "call_ended"}

StaleNext ==
    \/ \E s \in PairSockets : Join(s)
    \/ InitiatePairCall
    \/ \E i \in initiating : InitiateRinging(i)
    \/ \E p \in PartiesOf("c1") : AcceptCall("c1", p[1], p[2])
    \/ EndCall("c1")
    \/ Tick("c1")
    \/ HeartbeatLapses("c1")
    \/ SweepStart
    \/ SweepFinish

SpecStale ==
    /\ InitObserving(StaleEvents)
    /\ [][StaleNext]_vars
    /\ WF_vars(HeartbeatLapses("c1"))
    /\ WF_vars(SweepStart)
    /\ WF_vars(SweepFinish)

C22_TimerIffAccepted ==
    \A c \in CallIds :
        HasTimer(c) <=> (HasCall(c) /\ activeCalls[c].status = "accepted")

\* C23: a user whose status is busy or ringing has a currentCallId that
\* names a session of activeCalls that is being set up, ringing or accepted.
C23_BusyUserHasLiveSession ==
    \A u \in Users :
        userStatus[u].status \in {"busy", "ringing"} =>
            /\ userStatus[u].currentCallId # Null
            /\ HasCall(userStatus[u].currentCallId)
            /\ activeCalls[userStatus[u].currentCallId].status \in
                  {"initiated", "ringing", "pending_fcm", "accepted"}

(***************************************************************************)
(* Answering a call: u1 calls u2 under callId c1; accept_call and          *)
(* decline_call messages for c1 arrive with any callerId and recipientId,  *)
(* before or after the ring timeout.                                       *)
(***************************************************************************)
AnswerEvents == {"error", "call_accepted", "call_declined"}

AnswerNext ==
    \/ \E s \in FirstSockets : Join(s)
    \/ InitiatePairCall
    \/ \E i \in initiating : InitiateRinging(i)
    \/ \E t \in ringTimeouts : RingTimeoutFires(t)
    \/ \E a \in Users, r \in Users : AcceptCall("c1", a, r)
    \/ \E a \in Users, r \in Users : DeclineCall("c1", a, r)

SpecAnswer == InitObserving(AnswerEvents) /\ [][AnswerNext]_vars

(***************************************************************************)
(* Who pays: u1 calls u2 under callId c1, u2 accepts with any callerId in  *)
(* the message, and POST /api/calls/complete arrives with any callerId.    *)
(***************************************************************************)
PayerNext ==
    \/ \E s \in FirstSockets : Join(s)
    \/ InitiatePairCall
    \/ \E i \in initiating : InitiateRinging(i)
    \/ \E a \in Users : AcceptCall("c1", a, "u2")
    \/ Tick("c1")
    \/ \E a \in MaybeUsers : CallsCompleteBegin("c1", a, NoReport)
    \/ \E r \in completing : CallsCompleteFinish(r)

SpecPayer == InitObserving({"call_accepted"}) /\ [][PayerNext]_vars

\* The session of callId c was accepted by an accept_call that named the
\* session's caller, who was therefore sent call_accepted: the timer of c
\* keeps the callerId of the accept_call that created it.
AcceptedForCaller(c) ==
    /\ HasCall(c)
    /\ activeCalls[c].status = "accepted"
    /\ HasTimer(c)
    /\ callTimers[c].callerId = activeCalls[c].callerId

\* C24: accept_call and decline_call never both take effect for one callId:
\* the caller who was sent call_accepted for a callId is not sent
\* call_declined for it.
C24_AcceptXorDecline ==
    [][\A c \in CallIds, m \in emitted' :
          (/\ m.ev = "call_declined"
           /\ m.callId = c
           /\ HasCall(c)
           /\ connectedUsers[activeCalls[c].callerId].present
           /\ m.to = connectedUsers[activeCalls[c].callerId].socketId)
          => ~AcceptedForCaller(c)]_vars

\* C25: accept_call for a callId without session, with a recipientId other
\* than the session's, or for a session whose status is not ringing or
\* pending_fcm, emits an error and leaves user statuses, sessions and
\* callTimers unchanged.
C25_AcceptGuarded ==
    [][\A c \in CallIds, a \in Users, r \in Users :
          (/\ ~(/\ HasCall(c)
                /\ activeCalls[c].recipientId = r
                /\ activeCalls[c].status \in {"ringing", "pending_fcm"})
           /\ AcceptCall(c, a, r))
          => /\ Msg("error", c, Requester) \in emitted'
             /\ userStatus' = userStatus
             /\ activeCalls' = activeCalls
             /\ callTimers' = callTimers]_vars

\* C26: decline_call for a callId without session, for an accepted session,
\* or with a recipientId other than the session's, leaves sessions, user
\* statuses and timers unchanged.
C26_DeclineGuarded ==
    [][\A c \in CallIds, a \in Users, r \in Users :
          (/\ ~(/\ HasCall(c)
                /\ activeCalls[c].status # "accepted"
                /\ activeCalls[c].recipientId = r)
           /\ DeclineCall(c, a, r))
          => /\ activeCalls' = activeCalls
             /\ userStatus' = userStatus
             /\ callTimers' = callTimers
             /\ liveIntervals' = liveIntervals]_vars

\* C27: the callerId a client supplies decides neither who is marked busy
\* nor who pays: accept_call changes the status of the session's caller and
\* recipient only and records the session's caller in the timer, and
\* POST /api/calls/complete debits the session's caller only.
C27_SessionCallerPays ==
    [][\A c \in CallIds, a \in Users, r \in Users :
          HasCall(c) =>
             /\ AcceptCall(c, a, r) =>
                   /\ \A u \in Users :
                         userStatus'[u] # userStatus[u] =>
                            u \in {activeCalls[c].callerId, activeCalls[c].recipientId}
                   /\ callTimers'[c].present =>
                         callTimers'[c].callerId = activeCalls[c].callerId
             /\ \A k \in ClientReports :
                   (HasTimer(c) /\ CallsCompleteBegin(c, a, k)) =>
                      \A u \in Users :
                         balance'[u] # balance[u] => u = activeCalls[c].callerId]_vars

\* C30: once the ring timeout has resolved a callId (its document says
\* timeout), an accept_call or decline_call for it is answered with an
\* error and changes no user status, session or timer.
C30_AnswerAfterTimeoutRejected ==
    [][\A c \in CallIds, a \in Users, r \in Users :
          (/\ callDocs[c] = "timeout"
           /\ (AcceptCall(c, a, r) \/ DeclineCall(c, a, r)))
          => /\ emitted' = {Msg("error", c, Requester)}
             /\ userStatus' = userStatus
             /\ activeCalls' = activeCalls
             /\ callTimers' = callTimers
             /\ timersCreated' = timersCreated
             /\ liveIntervals' = liveIntervals]_vars

\* An accept_call or decline_call has just been answered with an error for
\* a callId whose session the ring timeout removed; the recipient is
\* available again.
C30_LateAnswerRefused ==
    \E c \in CallIds :
        /\ Msg("error", c, Requester) \in emitted
        /\ callDocs[c] = "timeout"
        /\ ~HasCall(c)
        /\ ~HasTimer(c)
        /\ userStatus["u2"] = AvailableStatus

\* C28: POST /api/update_availability changes neither the status nor the
\* currentCallId of a user who is busy or ringing.
C28_AvailabilityKeepsCallStatus ==
    [][\A u \in Users, b \in BOOLEAN :
          (/\ userStatus[u].status \in {"busy", "ringing"}
           /\ UpdateAvailability(u, b))
          => userStatus'[u] = userStatus[u]]_vars

(***************************************************************************)
(* Calling again: u1 calls u2 under callId c1 and, once c1 is over, under  *)
(* c2, while end_call, POST /api/calls/complete and the heartbeat sweep    *)
(* terminate either call.                                                  *)
(***************************************************************************)
RedialEvents == {"call_ended", "completed"}

RedialNext ==
    \/ \E s \in PairSockets : Join(s)
    \/ \E c \in CallIds :
          /\ connectedUsers["u2"].present
          /\ FreshCallId(c)
          /\ InitiateCall(SocketOf("u1"), "u2", "audio", c, TRUE)
    \/ \E i \in initiating : InitiateRinging(i)
    \/ \E c \in CallIds : \E p \in PartiesOf(c) : AcceptCall(c, p[1], p[2])
    \/ \E c \in CallIds : EndCall(c)
    \/ \E c \in CallIds : CallsCompleteBegin(c, Null, NoReport)
    \/ \E r \in completing : CallsCompleteFinish(r)
    \/ \E c \in CallIds : HeartbeatLapses(c)
    \/ SweepStart
    \/ SweepFinish

SpecRedial == InitObserving(RedialEvents) /\ [][RedialNext]_vars

\* C29: the termination of call c by end_call, by POST /api/calls/complete
\* or by the heartbeat sweep changes the status only of users whose
\* currentCallId is c.
C29_TerminationTouchesOwnUsers ==
    [][\A c \in CallIds :
          (\/ HasCall(c) /\ EndCall(c)
           \/ \E r \in completing : r.callId = c /\ CallsCompleteFinish(r)
           \/ sweeping # <<>> /\ Head(sweeping).callId = c /\ SweepFinish)
          => \A u \in Users :
                userStatus'[u] # userStatus[u] => userStatus[u].currentCallId = c]_vars

(***************************************************************************)
(* A callId used twice: u1, u2 and u3, each on one socket, place audio     *)
(* calls under the one callId c1, to any recipient.                        *)
(***************************************************************************)
DuplicateNext ==
    \/ \E s \in FirstSockets : Join(s)
    \/ \E s \in FirstSockets, r \in Users, named \in BOOLEAN :
          /\ connectedUsers[r].present
          /\ InitiateCall(s, r, "audio", "c1", named)
    \/ \E i \in initiating : InitiateResume(i)
    \/ \E i \in initiating : InitiateRinging(i)
    \/ \E t \in ringTimeouts : RingTimeoutFires(t)
    \/ \E p \in PartiesOf("c1") : AcceptCall("c1", p[1], p[2])

SpecDuplicate == InitObserving({"call_failed"}) /\ [][DuplicateNext]_vars

\* The part of a session that identifies it and tells how far it is.
SessionFields(call) ==
    [callerId |-> call.callerId, recipientId |-> call.recipientId,
     status |-> call.status, participants |-> call.participants]

\* C31: an initiate_call whose callId names a session of activeCalls leaves
\* that session's caller, recipient, status and participants as they were.
C31_DuplicateCallIdKeepsSession ==
    [][\A c \in CallIds :
          (/\ HasCall(c)
           /\ \/ \E s \in Sockets, r \in Users, named \in BOOLEAN :
                    InitiateCall(s, r, "audio", c, named)
              \/ \E i \in initiating : i.callId = c /\ InitiateResume(i))
          => SessionFields(activeCalls'[c]) = SessionFields(activeCalls[c])]_vars

(***************************************************************************)
(* The calls to a recipient who is away, with the caller's call_initiated  *)
(* recorded.                                                               *)
(***************************************************************************)
SpecNotified == InitObserving({"call_initiated"}) /\ [][AwayNext]_vars

\* C32: when initiate_call sends call_initiated to the caller, on the
\* live-socket path and on the push path, the recipient's status is ringing
\* with the new callId as currentCallId and a ring timeout is armed for it.
C32_InitiatedMeansRinging ==
    [][\A i \in initiating :
          Msg("call_initiated", i.callId, i.s) \in emitted' =>
             /\ userStatus'[i.recipientId] =
                   [status |-> "ringing", currentCallId |-> i.callId]
             /\ \E t \in ringTimeouts' : t.callId = i.callId]_vars

(***************************************************************************)
(* What is left behind: one call between u1 and u2 that is accepted and    *)
(* then declined, cancelled, ended or completed, while u1 goes on sending  *)
(* health_ping.  The timers of the server run (ring timeout, sweep), a     *)
(* timer that hears nothing becomes stale and every await returns; no      *)
(* client is bound to send anything.                                       *)
(***************************************************************************)
LingerEvents == {"completed", "call_ended"}

LingerNext ==
    \/ \E s \in PairSockets : Join(s)
    \/ InitiatePairCall
    \/ \E i \in initiating : InitiateRinging(i)
    \/ \E t \in ringTimeouts : RingTimeoutFires(t)
    \/ \E p \in PartiesOf("c1") : AcceptCall("c1", p[1], p[2])
    \/ \E p \in PartiesOf("c1") : DeclineCall("c1", p[1], p[2])
    \/ \E p \in PartiesOf("c1") : CancelCall("c1", p[2])
    \/ EndCall("c1")
    \/ Tick("c1")
    \/ HealthPing("u1")
    \/ HeartbeatLapses("c1")
    \/ SweepStart
    \/ SweepFinish
    \/ CallsCompleteBegin("c1", Null, NoReport)
    \/ \E r \in completing : CallsCompleteFinish(r)

SpecLinger ==
    /\ InitObserving(LingerEvents)
    /\ [][LingerNext]_vars
    /\ WF_vars(\E i \in initiating : InitiateRinging(i))
    /\ WF_vars(\E t \in ringTimeouts : RingTimeoutFires(t))
    /\ WF_vars(HeartbeatLapses("c1"))
    /\ WF_vars(SweepStart)
    /\ WF_vars(SweepFinish)
    /\ WF_vars(\E r \in completing : CallsCompleteFinish(r))

\* C35: a user who is busy for a callId whose session is no longer in
\* activeCalls eventually has a status other than busy.
C35_BusyEndsWithSession ==
    \A u \in Users, c \in CallIds :
        (userStatus[u] = BusyStatus(c) /\ ~HasCall(c)) ~> (userStatus[u].status # "busy")

\* The statuses of a call document that come with the duration and the coins
\* computed by the server.
ServerTerminalStatuses == {"completed", "disconnected", "timeout_heartbeat"}

\* C38: no end_call, cancel_call or POST /api/calls/complete changes the
\* status of a call document that has a terminal status written with the
\* server's duration and coins.
C38_TerminalRecordKept ==
    [][\A c \in CallIds :
          (/\ callDocs[c] \in ServerTerminalStatuses
           /\ \/ EndCall(c)
              \/ \E r \in Users : CancelCall(c, r)
              \/ \E k \in ClientReports : CallsCompleteBegin(c, Null, k)
              \/ \E r \in completing : r.callId = c /\ CallsCompleteFinish(r))
          => callDocs'[c] = callDocs[c]]_vars

(***************************************************************************)
(* After the completion request: one call between u1 and u2 is accepted    *)
(* and completed through POST /api/calls/complete; no client sends a       *)
(* heartbeat, so that every timer becomes stale and is swept.              *)
(***************************************************************************)
LeftoverNext ==
    \/ \E s \in PairSockets : Join(s)
    \/ InitiatePairCall
    \/ \E i \in initiating : InitiateRinging(i)
    \/ \E t \in ringTimeouts : RingTimeoutFires(t)
    \/ \E p \in PartiesOf("c1") : AcceptCall("c1", p[1], p[2])
    \/ Tick("c1")
    \/ HeartbeatLapses("c1")
    \/ SweepStart
    \/ SweepFinish
    \/ CallsCompleteBegin("c1", Null, NoReport)
    \/ \E r \in completing : CallsCompleteFinish(r)

SpecLeftover ==
    /\ InitObserving({"completed"})
    /\ [][LeftoverNext]_vars
    /\ WF_vars(\E i \in initiating : InitiateRinging(i))
    /\ WF_vars(\E t \in ringTimeouts : RingTimeoutFires(t))
    /\ WF_vars(HeartbeatLapses("c1"))
    /\ WF_vars(SweepStart)
    /\ WF_vars(SweepFinish)
    /\ WF_vars(\E r \in completing : CallsCompleteFinish(r))

\* C40: a session of activeCalls that has failed, or whose call has been
\* completed through POST /api/calls/complete, is eventually removed.
C40_SessionEventuallyRemoved ==
    \A c \in CallIds :
        (HasCall(c) /\ (activeCalls[c].status = "failed" \/ callDocs[c] = "completed"))
            ~> ~HasCall(c)

(***************************************************************************)
(* A caller who cannot pay: u3, whose balance is 3 coins, places a video   *)
(* call to u2, which is accepted, lasts and is completed through           *)
(* POST /api/calls/complete.                                               *)
(***************************************************************************)
BrokeNext ==
    \/ \E s \in {SocketOf("u2"), SocketOf("u3")} : Join(s)
    \/ /\ connectedUsers["u2"].present
       /\ FreshCallId("c1")
       /\ InitiateCall(SocketOf("u3"), "u2", "video", "c1", TRUE)
    \/ \E i \in initiating : InitiateRinging(i)
    \/ \E p \in PartiesOf("c1") : AcceptCall("c1", p[1], p[2])
    \/ Tick("c1")
    \/ CallsCompleteBegin("c1", Null, NoReport)
    \/ \E r \in completing : CallsCompleteFinish(r)

SpecBroke == InitObserving({"calls_complete"}) /\ [][BrokeNext]_vars

\* C36: when POST /api/calls/complete answers from the server timer with
\* coinsDeducted = n, the balance of the timer's caller has been reduced by
\* exactly n.
C36_ReportedChargeWasTaken ==
    [][\A c \in CallIds, m \in emitted' :
          (m.ev = "calls_complete" /\ m.callId = c /\ HasTimer(c)) =>
              LET payer == callTimers[c].callerId
              IN  (balance[payer] - balance'[payer]) * FifthsPerCoin = m.coinsFifths]_vars

(***************************************************************************)
(* One user who joins, disconnects and joins again, on one socket or on    *)
(* another, while the disconnect timeouts run.                             *)
(***************************************************************************)
SocketsOfUser(u) == {s \in Sockets : s[1] = u}

GraceNext ==
    \/ \E s \in SocketsOfUser("u1") : JoinStart(s)
    \/ \E j \in joining : JoinLoaded(j)
    \/ \E s \in SocketsOfUser("u1") : Disconnect(s)
    \/ \E t \in graceTimers : DisconnectTimeoutFires(t)
    \/ \E e \in expiring : DisconnectTimeoutDone(e)

SpecGrace == InitObserving({"socket_disconnected"}) /\ [][GraceNext]_vars

PendingTimeoutsOf(u) == {t \in graceTimers : t.userId = u}

\* C33: a user has at most one disconnect timeout pending, and the timeout
\* of a disconnect after which the user joined again never marks the user
\* offline or unavailable in the durable store.
C33_RejoinedNotMarkedOffline ==
    /\ [](\A u \in Users : Cardinality(PendingTimeoutsOf(u)) <= 1)
    /\ [][\A t \in graceTimers :
            (DisconnectTimeoutFires(t) /\ t.rejoined)
                => /\ fsOnline'[t.userId] = fsOnline[t.userId]
                   /\ fsAvailable'[t.userId] = fsAvailable[t.userId]]_vars

\* C37: the disconnect of a socket no user is registered on changes no
\* presence record, status, session or timer, starts no disconnect timeout
\* and writes nothing to the durable store.
C37_UnregisteredDisconnectChangesNothing ==
    [][\A s \in Sockets :
         (Disconnect(s) /\ ~(connectedUsers[s[1]].present /\ connectedUsers[s[1]].socketId = s))
             => UNCHANGED <<connectedUsers, userStatus, activeCalls, callDocs, ringTimeouts,
                            timerVars, ledgerVars, initiating, joining, disconnecting,
                            disconnectTimeouts, graceTimers, expiring, fsOnline>>]_vars

\* The old socket of a user who joined on another socket has just closed,
\* and the user is still online on the new one.
C37_OldSocketClosedUserOnline ==
    \E s \in Sockets :
        /\ SocketLog(s) \in emitted
        /\ connectedUsers[s[1]].present
        /\ connectedUsers[s[1]].socketId # s
        /\ connectedUsers[s[1]].isOnline
        /\ connectedUsers[s[1]].socketId \in liveSockets

(***************************************************************************)
(* A user who joined as 'female' comes and goes and sets her availability. *)
(***************************************************************************)
GoneNext ==
    \/ JoinStart(SocketOf("u3"))
    \/ \E j \in joining : JoinLoaded(j)
    \/ Disconnect(SocketOf("u3"))
    \/ \E d \in disconnecting : DisconnectArms(d)
    \/ \E t \in graceTimers : DisconnectTimeoutFires(t)
    \/ \E e \in expiring : DisconnectTimeoutDone(e)
    \/ \E b \in BOOLEAN : UpdateAvailability("u3", b)

SpecGone == InitObserving({}) /\ [][GoneNext]_vars

\* C34: the saved isAvailable of a user changes only by a request to
\* /api/update_availability: no disconnect and no expiry of a disconnect
\* timeout changes it.
C34_OnlyRequestChangesAvailability ==
    [][\A u \in Users :
         fsAvailable'[u] # fsAvailable[u] => \E b \in BOOLEAN : UpdateAvailability(u, b)]_vars

(***************************************************************************)
(* Caller and recipient join, and the call is placed and answered, while   *)
(* a join may be loading the saved preference.                             *)
(***************************************************************************)
JoiningNext ==
    \/ \E s \in PairSockets : JoinStart(s)
    \/ \E j \in joining : JoinLoaded(j)
    \/ InitiatePairCall
    \/ \E i \in initiating : InitiateRinging(i)
    \/ \E t \in ringTimeouts : RingTimeoutFires(t)
    \/ \E p \in PartiesOf("c1") : AcceptCall("c1", p[1], p[2])
    \/ \E p \in PartiesOf("c1") : DeclineCall("c1", p[1], p[2])

SpecJoining == InitObserving({"joined"}) /\ [][JoiningNext]_vars

\* C39: a join never overwrites the status of a user who is busy or
\* ringing, neither when the join arrives nor when it resumes after it has
\* loaded the saved preference.
C39_JoinKeepsBusyAndRinging ==
    [][\A u \in Users :
         (/\ userStatus[u].status \in {"busy", "ringing"}
          /\ \/ \E s \in SocketsOfUser(u) : JoinStart(s) \/ Join(s)
             \/ \E j \in joining : j.userId = u /\ JoinLoaded(j))
             => userStatus'[u] = userStatus[u]]_vars

====
